---------------------------- MODULE Spec2Model ----------------------------
(***************************************************************************)
(* Model of the normalization and stream-assembly layer of the inference   *)
(* SDK: the stream-contract validator (core/src/stream_contract.rs), the   *)
(* result assembler InferenceResult::from_stream (core/src/lib.rs), the   *)
(* two provider stream adapters (anthropic/src/normalization.rs,           *)
(* openai/src/normalization.rs) and the shared HTTP transport with retry,  *)
(* send_with_retry (core/src/http.rs).                                     *)
(*                                                                         *)
(* Conventions.  A Rust String that the code concatenates or parses is a   *)
(* sequence of one-character strings; an identifier-like String is a TLA+  *)
(* string.  Option<T> is a sequence of length at most one: None is << >>   *)
(* and Some(x) is <<x>>.  A Result is a record with a "tag" field.         *)
(***************************************************************************)
EXTENDS Naturals, Sequences, FiniteSets

VARIABLES
    stream,         \* items the InferenceStream has yielded so far, in order
    stream_ended,   \* the stream has returned None
    validator,      \* a stand-alone EventOrderValidator fed every Ok event
    verdicts,       \* what validate_event returned for each Ok event fed to it
    asm,            \* the locals of InferenceResult::from_stream
    asm_result,     \* what from_stream returned (Pending while it still runs)
    provider,       \* which driver's adapter is being fed: "anthropic" or "openai"
    anthropic,      \* the AnthropicStreamAdapter
    openai,         \* the OpenAiStreamAdapter
    emitted,        \* every item the adapter has returned so far, in order
    wire,           \* what the provider has sent so far, as far as its order goes
    feed,           \* a payload being delivered in chunks: what is still to come
    http,           \* one send_with_retry call: its policies, locals and result
    sse,            \* one Chat-Completions chunk stream: SSE frames in, items out
    outbound,       \* one neutral request and the wire request made of it
    registry        \* a ProviderRegistry, the calls made on it and their results

core_vars == <<stream, stream_ended, validator, verdicts, asm, asm_result>>
adapter_vars == <<provider, anthropic, openai, emitted, wire>>
vars == <<stream, stream_ended, validator, verdicts, asm, asm_result,
          provider, anthropic, openai, emitted, wire, feed, http,
          sse, outbound, registry>>

\* Largest number of items one stream yields.
MaxItems == 5

\* An adapter is fed frames until it has emitted this many items.
MaxEmitted == 4

None == << >>
Some(x) == <<x>>

-----------------------------------------------------------------------------
(* Neutral data model: core/src/lib.rs                                     *)

MessageStart(model, provider_id) ==
    [type |-> "MessageStart", role |-> "assistant", model |-> model,
     provider_id |-> provider_id]
MessageDelta(content) == [type |-> "MessageDelta", content |-> content]
ThinkingDelta(content) == [type |-> "ThinkingDelta", content |-> content]
ToolCallStart(id, name) == [type |-> "ToolCallStart", id |-> id, name |-> name]
ToolCallDelta(delta) == [type |-> "ToolCallDelta", delta |-> delta]
MessageEnd(input_tokens, output_tokens, stop_reason) ==
    [type |-> "MessageEnd", input_tokens |-> input_tokens,
     output_tokens |-> output_tokens, stop_reason |-> stop_reason]

Text(text) == [type |-> "Text", text |-> text]
Thinking(content) == [type |-> "Thinking", content |-> content]
ToolUse(id, name, input) ==
    [type |-> "ToolUse", id |-> id, name |-> name, input |-> input]

Usage(input_tokens, output_tokens) ==
    [input_tokens |-> input_tokens, output_tokens |-> output_tokens]

InferenceResult(content, model, stop_reason, usage) ==
    [content |-> content, model |-> model, stop_reason |-> stop_reason,
     usage |-> usage]

\* SdkError variants, each with the payload the variant carries.
StreamInvariantViolation(v) == [kind |-> "StreamInvariantViolation", detail |-> v]
ProviderError(message) == [kind |-> "ProviderError", detail |-> message]
SerializationError(source) == [kind |-> "SerializationError", detail |-> source]
StreamError(message) == [kind |-> "StreamError", detail |-> message]

Ok(v) == [tag |-> "Ok", value |-> v]
Err(e) == [tag |-> "Err", error |-> e]
Pending == [tag |-> "Pending"]

-----------------------------------------------------------------------------
(* Stream-contract validator: core/src/stream_contract.rs                  *)

EventOrderValidator_new ==
    [message_started |-> FALSE, message_ended |-> FALSE,
     tool_call_started |-> FALSE]

\* The Ok(()) and Err(violation) of validate_event and finish.
Accepted == "Ok"

\* What validate_event leaves and returns: the validator after the call and
\* Accepted or the violation.
Verdict(self, result) == [self |-> self, result |-> result]

\* Mutants of the arms below: each drops one check or one assignment.
validate_MessageStart_unchecked(self) ==
    Verdict([self EXCEPT !.message_started = TRUE], Accepted)

validate_Delta_unchecked(self) == Verdict(self, Accepted)

validate_ToolCallStart_no_flag(self) ==
    IF ~self.message_started THEN Verdict(self, "MessageNotStarted")
    ELSE Verdict(self, Accepted)

validate_ToolCallDelta_unchecked(self) ==
    IF ~self.message_started THEN Verdict(self, "MessageNotStarted")
    ELSE Verdict(self, Accepted)

validate_MessageEnd_not_recorded(self) ==
    IF ~self.message_started THEN Verdict(self, "MessageEndBeforeStart")
    ELSE Verdict([self EXCEPT !.tool_call_started = FALSE], Accepted)

\* A rejected ToolCallDelta is remembered as an open tool call:
validate_ToolCallDelta_marks_open(self) ==
    IF ~self.message_started THEN Verdict(self, "MessageNotStarted")
    ELSE IF ~self.tool_call_started
    THEN Verdict([self EXCEPT !.tool_call_started = TRUE], "ToolCallDeltaBeforeStart")
    ELSE Verdict(self, Accepted)

\* A text or thinking delta closes the open tool call:
validate_Delta_closes_tool_call(self) ==
    IF ~self.message_started THEN Verdict(self, "MessageNotStarted")
    ELSE Verdict([self EXCEPT !.tool_call_started = FALSE], Accepted)

\* The arms of the match in validate_event, reached when ~self.message_ended.
validate_MessageStart(self) ==
    IF self.message_started THEN Verdict(self, "DuplicateMessageStart")
    ELSE Verdict([self EXCEPT !.message_started = TRUE], Accepted)

validate_Delta(self) ==
    IF ~self.message_started THEN Verdict(self, "MessageNotStarted")
    ELSE Verdict(self, Accepted)

validate_ToolCallStart(self) ==
    IF ~self.message_started THEN Verdict(self, "MessageNotStarted")
    ELSE Verdict([self EXCEPT !.tool_call_started = TRUE], Accepted)

validate_ToolCallDelta(self) ==
    IF ~self.message_started THEN Verdict(self, "MessageNotStarted")
    ELSE IF ~self.tool_call_started THEN Verdict(self, "ToolCallDeltaBeforeStart")
    ELSE Verdict(self, Accepted)

validate_MessageEnd(self) ==
    IF ~self.message_started THEN Verdict(self, "MessageEndBeforeStart")
    ELSE Verdict([self EXCEPT !.message_ended = TRUE, !.tool_call_started = FALSE],
                 Accepted)

\* validate_event(&mut self, event)
validate_event(self, event) ==
    IF self.message_ended THEN Verdict(self, "EventAfterMessageEnd")
    ELSE CASE event.type = "MessageStart" -> validate_MessageStart(self)
           [] event.type \in {"MessageDelta", "ThinkingDelta"} -> validate_Delta(self)
           [] event.type = "ToolCallStart" -> validate_ToolCallStart(self)
           [] event.type = "ToolCallDelta" -> validate_ToolCallDelta(self)
           [] event.type = "MessageEnd" -> validate_MessageEnd(self)

\* Mutant of finish: the two checks in the wrong order of precedence.
finish_end_first(self) ==
    IF ~self.message_ended THEN "MissingMessageEnd"
    ELSE IF ~self.message_started THEN "MissingMessageStart"
    ELSE Accepted

\* finish(&self)
finish(self) ==
    IF ~self.message_started THEN "MissingMessageStart"
    ELSE IF ~self.message_ended THEN "MissingMessageEnd"
    ELSE Accepted

\* The loop of validate_event_sequence from event number i on, with the
\* validator as it stands: the first rejection is returned at once.
RECURSIVE ValidateFrom(_, _, _)
ValidateFrom(v, events, i) ==
    IF i > Len(events) THEN finish(v)
    ELSE LET r == validate_event(v, events[i])
         IN IF r.result # Accepted THEN r.result
            ELSE ValidateFrom(r.self, events, i + 1)

validate_event_sequence(events) == ValidateFrom(EventOrderValidator_new, events, 1)

-----------------------------------------------------------------------------
(* serde_json::from_str as from_stream uses it, over the characters        *)
(*   {  }  "  :  ,  1  k  and the space.                                   *)
(* A value is a number (its digits), a string (its characters) or an       *)
(* object (a function from its keys to their values; a repeated key keeps  *)
(* the last value, as serde_json's Map does).                              *)

JsonFail == [ok |-> FALSE]
JsonOk(value, next) == [ok |-> TRUE, value |-> value, next |-> next]

JsonNumber(digits) == [t |-> "number", v |-> digits]
JsonString(chars) == [t |-> "string", v |-> chars]
JsonObject(members) == [t |-> "object", v |-> members]
EmptyMembers == [key \in {} |-> JsonFail]
EmptyObject == JsonObject(EmptyMembers)

RECURSIVE SkipWhitespace(_, _)
SkipWhitespace(s, i) ==
    IF i <= Len(s) /\ s[i] = " " THEN SkipWhitespace(s, i + 1) ELSE i

\* The first position from i on that does not hold character c.
RECURSIVE SkipWhile(_, _, _)
SkipWhile(s, i, c) ==
    IF i <= Len(s) /\ s[i] = c THEN SkipWhile(s, i + 1, c) ELSE i

\* The position of the first quote from i on, Len(s) + 1 if there is none.
RECURSIVE FindQuote(_, _)
FindQuote(s, i) ==
    IF i <= Len(s) /\ s[i] # "\"" THEN FindQuote(s, i + 1) ELSE i

\* A string literal starting at the quote at position i.
ParseString(s, i) ==
    LET close == FindQuote(s, i + 1)
    IN IF close > Len(s) THEN JsonFail
       ELSE JsonOk(JsonString(SubSeq(s, i + 1, close - 1)), close + 1)

RECURSIVE ParseValue(_, _)
RECURSIVE ParseMembers(_, _, _)

\* After a member's value, at position sep: the object closes or goes on.
MemberSeparator(s, sep, members) ==
    IF sep > Len(s) THEN JsonFail
    ELSE IF s[sep] = "}" THEN JsonOk(JsonObject(members), sep + 1)
    ELSE IF s[sep] = "," THEN ParseMembers(s, SkipWhitespace(s, sep + 1), members)
    ELSE JsonFail

\* The member key : val joins the members read so far.
MemberValue(s, key, val, members) ==
    IF ~val.ok THEN JsonFail
    ELSE MemberSeparator(s, SkipWhitespace(s, val.next),
                         [k \in DOMAIN members \cup {key} |->
                             IF k = key THEN val.value ELSE members[k]])

\* After a member's key: the colon at position colon, then the value.
MemberColon(s, key, colon, members) ==
    IF colon > Len(s) \/ s[colon] # ":" THEN JsonFail
    ELSE MemberValue(s, key, ParseValue(s, SkipWhitespace(s, colon + 1)), members)

MemberKey(s, key, members) ==
    IF ~key.ok THEN JsonFail
    ELSE MemberColon(s, key.value.v, SkipWhitespace(s, key.next), members)

\* The members of an object from position i (a key is expected there) on.
ParseMembers(s, i, members) ==
    IF i > Len(s) \/ s[i] # "\"" THEN JsonFail
    ELSE MemberKey(s, ParseString(s, i), members)

\* A value starting at position i, which holds no whitespace.
ParseValue(s, i) ==
    IF i > Len(s) THEN JsonFail
    ELSE CASE s[i] = "1" ->
                LET end == SkipWhile(s, i, "1")
                IN JsonOk(JsonNumber(SubSeq(s, i, end - 1)), end)
           [] s[i] = "\"" -> ParseString(s, i)
           [] s[i] = "{" ->
                LET first == SkipWhitespace(s, i + 1)
                IN IF first > Len(s) THEN JsonFail
                   ELSE IF s[first] = "}" THEN JsonOk(EmptyObject, first + 1)
                   ELSE ParseMembers(s, first, EmptyMembers)
           [] OTHER -> JsonFail

\* serde_json::from_str::<Value>: one value, whitespace around it allowed,
\* nothing else after it.
from_str(s) ==
    LET val == ParseValue(s, SkipWhitespace(s, 1))
    IN IF ~val.ok THEN Err(SerializationError("serde_json"))
       ELSE IF SkipWhitespace(s, val.next) <= Len(s)
       THEN Err(SerializationError("serde_json"))
       ELSE Ok(val.value)

\* str::trim(..).is_empty()
IsBlank(s) == SkipWhitespace(s, 1) > Len(s)

\* serde_json::Value::to_string: compact, the members in the Map's key
\* order (the keys here are runs of k, which sort by length).
RECURSIVE to_string(_)
RECURSIVE MembersToString(_, _)
FirstKey(keys) == CHOOSE k \in keys : \A other \in keys : Len(k) <= Len(other)
MemberToString(members, key) ==
    <<"\"">> \o key \o <<"\"", ":">> \o to_string(members[key])
MembersToString(members, keys) ==
    IF keys = {} THEN << >>
    ELSE IF keys = {FirstKey(keys)} THEN MemberToString(members, FirstKey(keys))
    ELSE MemberToString(members, FirstKey(keys)) \o <<",">>
           \o MembersToString(members, keys \ {FirstKey(keys)})
to_string(value) ==
    CASE value.t = "number" -> value.v
      [] value.t = "string" -> <<"\"">> \o value.v \o <<"\"">>
      [] value.t = "object" ->
            <<"{">> \o MembersToString(value.v, DOMAIN value.v) \o <<"}">>

-----------------------------------------------------------------------------
(* Result assembler: InferenceResult::from_stream, core/src/lib.rs         *)

\* Mutant of parse_tool_input: every buffer goes to serde_json.
parse_tool_input_strict(tool_json) == from_str(tool_json)

parse_tool_input(tool_json) ==
    IF IsBlank(tool_json) THEN Ok(EmptyObject) ELSE from_str(tool_json)

\* The locals of from_stream at its first await.
from_stream_locals ==
    [content_parts |-> << >>,
     model |-> "",
     stop_reason |-> None,
     usage |-> Usage(0, 0),
     current_tool_id |-> None,
     current_tool_name |-> None,
     current_tool_json |-> << >>,
     event_validator |-> EventOrderValidator_new]

\* Mutant of finalize_pending_tool: a call with an empty buffer is dropped.
finalize_pending_tool_drops_empty(l) ==
    IF l.current_tool_json = << >>
    THEN [locals |-> [l EXCEPT !.current_tool_id = None, !.current_tool_name = None],
          result |-> Ok(<< >>)]
    ELSE IF parse_tool_input(l.current_tool_json).tag = "Err"
    THEN [locals |-> [l EXCEPT !.current_tool_id = None, !.current_tool_name = None],
          result |-> parse_tool_input(l.current_tool_json)]
    ELSE [locals |->
            [l EXCEPT !.current_tool_id = None,
                      !.current_tool_name = None,
                      !.content_parts =
                          Append(@, ToolUse(l.current_tool_id[1], l.current_tool_name[1],
                                            parse_tool_input(l.current_tool_json).value)),
                      !.current_tool_json = << >>],
          result |-> Ok(<< >>)]

\* finalize_pending_tool on the four locals it borrows: the locals after the
\* call and what the call returned.
finalize_pending_tool(l) ==
    IF l.current_tool_id = None /\ l.current_tool_name = None
       /\ l.current_tool_json = << >>
    THEN [locals |-> l, result |-> Ok(<< >>)]
    ELSE IF l.current_tool_id = None
    THEN [locals |-> l,
          result |-> Err(StreamInvariantViolation("ToolCallMissingId"))]
    ELSE IF l.current_tool_name = None
    THEN [locals |-> [l EXCEPT !.current_tool_id = None],
          result |-> Err(StreamInvariantViolation("ToolCallMissingName"))]
    ELSE LET input == parse_tool_input(l.current_tool_json)
             taken == [l EXCEPT !.current_tool_id = None,
                                !.current_tool_name = None]
         IN IF input.tag = "Err"
            THEN [locals |-> taken, result |-> input]
            ELSE [locals |->
                    [taken EXCEPT
                       !.content_parts =
                           Append(@, ToolUse(l.current_tool_id[1],
                                             l.current_tool_name[1],
                                             input.value)),
                       !.current_tool_json = << >>],
                  result |-> Ok(<< >>)]

\* Mutants of the arms below.  A MessageDelta always opens a new part:
assemble_MessageDelta_always_push(l, event) ==
    [locals |-> [l EXCEPT !.content_parts = Append(@, Text(event.content))],
     result |-> Ok(<< >>)]

\* A ToolCallDelta is put in front of the buffer:
assemble_ToolCallDelta_prepend(l, event) ==
    IF l.current_tool_id = None \/ l.current_tool_name = None
    THEN [locals |-> l,
          result |-> Err(StreamInvariantViolation("ToolCallDeltaBeforeStart"))]
    ELSE [locals |-> [l EXCEPT !.current_tool_json = event.delta \o @],
          result |-> Ok(<< >>)]

\* A ToolCallStart drops the call that is still open:
assemble_ToolCallStart_drops_pending(l, event) ==
    [locals |-> [l EXCEPT !.current_tool_id = Some(event.id),
                          !.current_tool_name = Some(event.name),
                          !.current_tool_json = << >>],
     result |-> Ok(<< >>)]

\* An error item is skipped:
stream_error_skipped(l, error) == [locals |-> l, result |-> Pending]

\* The arms of the inner match of from_stream on an event the validator
\* accepted: the locals after the arm and Ok or the Err the arm returns.
assemble_MessageStart(l, event) ==
    [locals |-> [l EXCEPT !.model = event.model], result |-> Ok(<< >>)]

assemble_MessageDelta(l, event) ==
    IF Len(l.content_parts) > 0 /\ l.content_parts[Len(l.content_parts)].type = "Text"
    THEN [locals |-> [l EXCEPT !.content_parts[Len(l.content_parts)].text =
                                   @ \o event.content],
          result |-> Ok(<< >>)]
    ELSE [locals |-> [l EXCEPT !.content_parts = Append(@, Text(event.content))],
          result |-> Ok(<< >>)]

assemble_ThinkingDelta(l, event) ==
    IF Len(l.content_parts) > 0 /\ l.content_parts[Len(l.content_parts)].type = "Thinking"
    THEN [locals |-> [l EXCEPT !.content_parts[Len(l.content_parts)].content =
                                   @ \o event.content],
          result |-> Ok(<< >>)]
    ELSE [locals |-> [l EXCEPT !.content_parts = Append(@, Thinking(event.content))],
          result |-> Ok(<< >>)]

\* Mutant of ToolCallStarted: the name of the new call is not stored.
ToolCallStarted_without_name(f, event) ==
    IF f.result.tag = "Err" THEN f
    ELSE [locals |-> [f.locals EXCEPT !.current_tool_id = Some(event.id),
                                      !.current_tool_json = << >>],
          result |-> Ok(<< >>)]

\* What the arm does once finalize_pending_tool returned f.
ToolCallStarted(f, event) ==
    IF f.result.tag = "Err" THEN f
    ELSE [locals |-> [f.locals EXCEPT !.current_tool_id = Some(event.id),
                                      !.current_tool_name = Some(event.name),
                                      !.current_tool_json = << >>],
          result |-> Ok(<< >>)]

\* Mutant of assemble_ToolCallStart: the new id and name are stored before
\* the call that is still open is closed.
assemble_ToolCallStart_renames_first(l, event) ==
    ToolCallStarted(finalize_pending_tool([l EXCEPT !.current_tool_id = Some(event.id),
                                                    !.current_tool_name = Some(event.name)]),
                    event)

assemble_ToolCallStart(l, event) == ToolCallStarted(finalize_pending_tool(l), event)

assemble_ToolCallDelta(l, event) ==
    IF l.current_tool_id = None \/ l.current_tool_name = None
    THEN [locals |-> l,
          result |-> Err(StreamInvariantViolation("ToolCallDeltaBeforeStart"))]
    ELSE [locals |-> [l EXCEPT !.current_tool_json = @ \o event.delta],
          result |-> Ok(<< >>)]

\* What the arm does once finalize_pending_tool returned f.
MessageEnded(f, event) ==
    IF f.result.tag = "Err" THEN f
    ELSE [locals |-> [f.locals EXCEPT
                        !.usage = Usage(event.input_tokens, event.output_tokens),
                        !.stop_reason = event.stop_reason],
          result |-> Ok(<< >>)]

assemble_MessageEnd(l, event) == MessageEnded(finalize_pending_tool(l), event)

\* The inner match of from_stream on an event the validator accepted.
AssembleEvent(l, event) ==
    CASE event.type = "MessageStart" -> assemble_MessageStart(l, event)
      [] event.type = "MessageDelta" -> assemble_MessageDelta(l, event)
      [] event.type = "ThinkingDelta" -> assemble_ThinkingDelta(l, event)
      [] event.type = "ToolCallStart" -> assemble_ToolCallStart(l, event)
      [] event.type = "ToolCallDelta" -> assemble_ToolCallDelta(l, event)
      [] event.type = "MessageEnd" -> assemble_MessageEnd(l, event)

\* Err(e) => return Err(e)
stream_error(l, error) == [locals |-> l, result |-> Err(error)]

\* What the Ok arm does once validate_event returned v.
Validated(l, v, event) ==
    IF v.result # Accepted
    THEN [locals |-> l, result |-> Err(StreamInvariantViolation(v.result))]
    ELSE IF AssembleEvent([l EXCEPT !.event_validator = v.self], event).result.tag = "Err"
    THEN AssembleEvent([l EXCEPT !.event_validator = v.self], event)
    ELSE [locals |-> AssembleEvent([l EXCEPT !.event_validator = v.self], event).locals,
          result |-> Pending]

\* One turn of the while-let loop of from_stream on the item the stream
\* yielded: the locals after it, and Pending or the Err the function returns.
from_stream_item(l, item) ==
    IF item.tag = "Err" THEN stream_error(l, item.error)
    ELSE Validated(l, validate_event(l.event_validator, item.value), item.value)

\* Mutant of from_stream_end: the final check is skipped.
from_stream_end_unchecked(l) ==
    Ok(InferenceResult(l.content_parts, l.model, l.stop_reason, l.usage))

\* from_stream after the loop: the final check, then the result.
from_stream_end(l) ==
    LET f == finish(l.event_validator)
    IN IF f # Accepted THEN Err(StreamInvariantViolation(f))
       ELSE Ok(InferenceResult(l.content_parts, l.model, l.stop_reason, l.usage))

-----------------------------------------------------------------------------
(* The stream a consumer may be handed: any items, in any order.           *)

Models == {"m1"}
TextChunks == {<<"a">>}
ThinkingChunks == {<<"t">>}
ToolCalls == {[id |-> "call_1", name |-> "weather"],
              [id |-> "call_2", name |-> "clock"]}
ArgumentChunks == {<<"{">>, <<"}">>}
MessageEnds == {MessageEnd(1, 2, Some("EndTurn"))}
StreamErrors == {ProviderError("boom"), StreamError("reset")}

OkEvents(items) == SelectSeq(items, LAMBDA it : it.tag = "Ok")
EventsOf(items) == [i \in 1..Len(OkEvents(items)) |-> OkEvents(items)[i].value]

-----------------------------------------------------------------------------
(* SpecCore: one stream, consumed by from_stream, its Ok events also fed   *)
(* one at a time to a stand-alone EventOrderValidator.                     *)

InitCore ==
    /\ provider = "none"
    /\ anthropic = [input_tokens |-> 0]
    /\ openai = [stop_reason |-> None, message_started |-> FALSE]
    /\ emitted = << >>
    /\ wire = [in_order |-> TRUE]
    /\ feed = [kind |-> "none"]
    /\ http = [result |-> Pending]
    /\ sse = [frames |-> 0]
    /\ outbound = [result |-> Pending]
    /\ registry = [calls |-> << >>]
    /\ stream = << >>
    /\ stream_ended = FALSE
    /\ validator = EventOrderValidator_new
    /\ verdicts = << >>
    /\ asm = from_stream_locals
    /\ asm_result = Pending

\* from_stream takes the item if it has not returned yet.
Consume(item) ==
    IF asm_result = Pending
    THEN LET r == from_stream_item(asm, item)
         IN /\ asm' = r.locals
            /\ asm_result' = r.result
    ELSE UNCHANGED <<asm, asm_result>>

\* The stream yields Ok(event).
YieldEvent(event) ==
    /\ ~stream_ended
    /\ Len(stream) < MaxItems
    /\ stream' = Append(stream, Ok(event))
    /\ LET v == validate_event(validator, event)
       IN /\ validator' = v.self
          /\ verdicts' = Append(verdicts, v.result)
    /\ Consume(Ok(event))
    /\ UNCHANGED <<stream_ended, provider, anthropic, openai, emitted, wire, feed, http,
                   sse, outbound, registry>>

YieldMessageStart == \E m \in Models : YieldEvent(MessageStart(m, "test"))
YieldMessageDelta == \E c \in TextChunks : YieldEvent(MessageDelta(c))
YieldThinkingDelta == \E c \in ThinkingChunks : YieldEvent(ThinkingDelta(c))
YieldToolCallStart == \E t \in ToolCalls : YieldEvent(ToolCallStart(t.id, t.name))
YieldToolCallDelta == \E d \in ArgumentChunks : YieldEvent(ToolCallDelta(d))
YieldMessageEnd == \E e \in MessageEnds : YieldEvent(e)

\* The stream yields Err(error): no event reaches the validator.
YieldError ==
    \E e \in StreamErrors :
        /\ ~stream_ended
        /\ Len(stream) < MaxItems
        /\ stream' = Append(stream, Err(e))
        /\ Consume(Err(e))
        /\ UNCHANGED <<stream_ended, validator, verdicts,
                       provider, anthropic, openai, emitted, wire, feed, http,
                       sse, outbound, registry>>

\* The stream returns None.
StreamEnd ==
    /\ ~stream_ended
    /\ stream_ended' = TRUE
    /\ asm_result' = IF asm_result = Pending THEN from_stream_end(asm) ELSE asm_result
    /\ UNCHANGED <<stream, validator, verdicts, asm,
                   provider, anthropic, openai, emitted, wire, feed, http,
                   sse, outbound, registry>>

NextCore ==
    \/ YieldMessageStart
    \/ YieldMessageDelta
    \/ YieldThinkingDelta
    \/ YieldToolCallStart
    \/ YieldToolCallDelta
    \/ YieldMessageEnd
    \/ YieldError
    \/ StreamEnd

SpecCore == InitCore /\ [][NextCore]_vars

-----------------------------------------------------------------------------
(* SpecPayload: one payload, a text or the arguments of one tool call, is  *)
(* cut into chunks at any places and delivered to from_stream as the       *)
(* deltas of one message.                                                  *)

OneMember(key, value) == JsonObject([k \in {key} |-> value])
TwoMembers(key1, value1, key2, value2) ==
    JsonObject([k \in {key1, key2} |-> IF k = key1 THEN value1 ELSE value2])

\* The tool arguments S.
JsonPayloads ==
    {EmptyObject,
     OneMember(<<"k">>, JsonNumber(<<"1">>)),
     OneMember(<<"k">>, JsonString(<<"1", " ">>)),
     OneMember(<<"k">>, EmptyObject),
     TwoMembers(<<"k">>, JsonNumber(<<"1">>), <<"k", "k">>, JsonNumber(<<"1", "1">>))}

\* The texts T.
TextPayloads == {<<"a">>, <<"a", "b", "c", "d", "e">>}

Feeds ==
    {[kind |-> "tool", value |-> v, payload |-> to_string(v), rest |-> to_string(v),
      phase |-> "start"] : v \in JsonPayloads}
    \cup {[kind |-> "text", value |-> EmptyObject, payload |-> t, rest |-> t,
           phase |-> "start"] : t \in TextPayloads}

InitPayload ==
    /\ feed \in Feeds
    /\ stream = << >>
    /\ stream_ended = FALSE
    /\ validator = EventOrderValidator_new
    /\ verdicts = << >>
    /\ asm = from_stream_locals
    /\ asm_result = Pending
    /\ provider = "none"
    /\ anthropic = [input_tokens |-> 0]
    /\ openai = [stop_reason |-> None, message_started |-> FALSE]
    /\ emitted = << >>
    /\ wire = [in_order |-> TRUE]
    /\ http = [result |-> Pending]
    /\ sse = [frames |-> 0]
    /\ outbound = [result |-> Pending]
    /\ registry = [calls |-> << >>]

\* The stream yields Ok(event) and the feed moves on.
Deliver(event, next_feed) ==
    /\ stream' = Append(stream, Ok(event))
    /\ validator' = validate_event(validator, event).self
    /\ verdicts' = Append(verdicts, validate_event(validator, event).result)
    /\ Consume(Ok(event))
    /\ feed' = next_feed
    /\ UNCHANGED <<stream_ended, provider, anthropic, openai, emitted, wire, http,
                   sse, outbound, registry>>

FeedMessageStart ==
    /\ feed.phase = "start"
    /\ Deliver(MessageStart("test-model", "test"),
               [feed EXCEPT !.phase = IF feed.kind = "tool" THEN "tool" ELSE "chunks"])

FeedToolCallStart ==
    /\ feed.phase = "tool"
    /\ Deliver(ToolCallStart("call_1", "weather"), [feed EXCEPT !.phase = "chunks"])

\* The next chunk: the first n characters of what is still to come.
FeedChunk ==
    /\ feed.phase = "chunks"
    /\ \E n \in 1..Len(feed.rest) :
          Deliver(IF feed.kind = "tool"
                  THEN ToolCallDelta(SubSeq(feed.rest, 1, n))
                  ELSE MessageDelta(SubSeq(feed.rest, 1, n)),
                  [feed EXCEPT !.rest = SubSeq(feed.rest, n + 1, Len(feed.rest))])

FeedMessageEnd ==
    /\ feed.phase = "chunks"
    /\ feed.rest = << >>
    /\ Deliver(MessageEnd(2, 3, Some("ToolUse")), [feed EXCEPT !.phase = "end"])

FeedEnd ==
    /\ feed.phase = "end"
    /\ feed' = [feed EXCEPT !.phase = "done"]
    /\ stream_ended' = TRUE
    /\ asm_result' = IF asm_result = Pending THEN from_stream_end(asm) ELSE asm_result
    /\ UNCHANGED <<stream, validator, verdicts, asm,
                   provider, anthropic, openai, emitted, wire, http,
                   sse, outbound, registry>>

NextPayload ==
    \/ FeedMessageStart
    \/ FeedToolCallStart
    \/ FeedChunk
    \/ FeedMessageEnd
    \/ FeedEnd

SpecPayload == InitPayload /\ [][NextPayload]_vars

-----------------------------------------------------------------------------
(* Messages-style driver: anthropic/src/types/message.rs (StreamEvent) and *)
(* anthropic/src/normalization.rs (AnthropicStreamAdapter).                *)

\* StreamEvent frames, by their serde tag.
WireMessageStart(model, input_tokens) ==
    [type |-> "message_start",
     message |-> [model |-> model, usage |-> [input_tokens |-> input_tokens]]]
WireContentBlockStart(content_block) ==
    [type |-> "content_block_start", content_block |-> content_block]
WireContentBlockDelta(delta) == [type |-> "content_block_delta", delta |-> delta]
WireContentBlockStop == [type |-> "content_block_stop"]
WireMessageDelta(stop_reason, output_tokens) ==
    [type |-> "message_delta", delta |-> [stop_reason |-> stop_reason],
     usage |-> [output_tokens |-> output_tokens]]
WireMessageStop == [type |-> "message_stop"]
WirePing == [type |-> "ping"]
WireError(message) == [type |-> "error", error |-> [message |-> message]]

\* ContentBlock and ContentBlockDelta variants.
BlockToolUse(id, name) == [type |-> "tool_use", id |-> id, name |-> name]
BlockText == [type |-> "text"]
TextDelta(text) == [type |-> "text_delta", text |-> text]
InputJsonDelta(partial_json) ==
    [type |-> "input_json_delta", partial_json |-> partial_json]
WireThinkingDelta(thinking) == [type |-> "thinking_delta", thinking |-> thinking]
SignatureDelta == [type |-> "signature_delta"]

AnthropicStreamAdapter_new == [input_tokens |-> 0]

\* The closure mapped over delta.stop_reason in process_event.
anthropic_stop_reason(s) ==
    CASE s = "end_turn" -> "EndTurn"
      [] s = "max_tokens" -> "MaxTokens"
      [] s = "tool_use" -> "ToolUse"
      [] s = "stop_sequence" -> "StopSequence"
      [] OTHER -> "Unknown"

\* What process_event leaves and returns: the adapter and the Vec of items.
Processed(self, events) == [self |-> self, events |-> events]

\* Mutant of on_message_delta: the frame is taken in but nothing is emitted.
on_message_delta_silent(self, event) == Processed(self, << >>)

\* Mutant of on_message_start: usage.input_tokens is not kept.
on_message_start_forgets_usage(self, event) ==
    Processed(self, <<Ok(MessageStart(event.message.model, "anthropic"))>>)

\* The arms of the match in process_event.
on_message_start(self, event) ==
    Processed([self EXCEPT !.input_tokens = event.message.usage.input_tokens],
              <<Ok(MessageStart(event.message.model, "anthropic"))>>)

on_content_block_delta(self, event) ==
    CASE event.delta.type = "text_delta" ->
            Processed(self, <<Ok(MessageDelta(event.delta.text))>>)
      [] event.delta.type = "thinking_delta" ->
            Processed(self, <<Ok(ThinkingDelta(event.delta.thinking))>>)
      [] event.delta.type = "input_json_delta" ->
            Processed(self, <<Ok(ToolCallDelta(event.delta.partial_json))>>)
      [] OTHER -> Processed(self, << >>)

on_content_block_start(self, event) ==
    IF event.content_block.type = "tool_use"
    THEN Processed(self, <<Ok(ToolCallStart(event.content_block.id,
                                            event.content_block.name))>>)
    ELSE Processed(self, << >>)

on_message_delta(self, event) ==
    Processed(self,
              <<Ok(MessageEnd(self.input_tokens, event.usage.output_tokens,
                              IF event.delta.stop_reason = None THEN None
                              ELSE Some(anthropic_stop_reason(event.delta.stop_reason[1]))))>>)

on_error(self, event) == Processed(self, <<Err(ProviderError(event.error.message))>>)

\* The arm `_ => vec![]`: content_block_stop, message_stop, ping.
on_other(self) == Processed(self, << >>)

\* AnthropicStreamAdapter::process_event(&mut self, event)
process_event(self, event) ==
    CASE event.type = "message_start" -> on_message_start(self, event)
      [] event.type = "content_block_delta" -> on_content_block_delta(self, event)
      [] event.type = "content_block_start" -> on_content_block_start(self, event)
      [] event.type = "message_delta" -> on_message_delta(self, event)
      [] event.type = "error" -> on_error(self, event)
      [] OTHER -> on_other(self)

-----------------------------------------------------------------------------
(* Chat-Completions-style driver: openai/src/types/chat.rs                 *)
(* (ChatCompletionChunk) and openai/src/normalization.rs                   *)
(* (OpenAiStreamAdapter).                                                  *)

ChatCompletionChunk(model, choices, usage) ==
    [model |-> model, choices |-> choices, usage |-> usage]
ChunkChoice(delta, finish_reason) == [delta |-> delta, finish_reason |-> finish_reason]
ChunkDelta(role, content, tool_calls) ==
    [role |-> role, content |-> content, tool_calls |-> tool_calls]
ChunkToolCall(id, function) == [id |-> id, function |-> function]
ChunkFunctionCall(name, arguments) == [name |-> name, arguments |-> arguments]
ChatUsage(prompt_tokens, completion_tokens) ==
    [prompt_tokens |-> prompt_tokens, completion_tokens |-> completion_tokens]

OpenAiStreamAdapter_new == [stop_reason |-> None, message_started |-> FALSE]

\* Mutant of openai_stop_reason: "length" is taken for "stop".
openai_stop_reason_length_as_stop(s) ==
    CASE s = "stop" -> "EndTurn"
      [] s = "length" -> "EndTurn"
      [] s = "tool_calls" -> "ToolUse"
      [] OTHER -> "Unknown"

\* The match on finish_reason in process_chunk.
openai_stop_reason(s) ==
    CASE s = "stop" -> "EndTurn"
      [] s = "length" -> "MaxTokens"
      [] s = "tool_calls" -> "ToolUse"
      [] s = "content_filter" -> "Unknown"
      [] OTHER -> "Unknown"

\* Mutant of tool_call_events: the arguments are pushed before the start.
tool_call_events_delta_first(tc) ==
    IF tc.function = None THEN << >>
    ELSE (IF tc.function[1].arguments # None /\ tc.function[1].arguments[1] # << >>
          THEN <<Ok(ToolCallDelta(tc.function[1].arguments[1]))>>
          ELSE << >>)
         \o (IF tc.id # None /\ tc.function[1].name # None
             THEN <<Ok(ToolCallStart(tc.id[1], tc.function[1].name[1]))>>
             ELSE << >>)

\* The body of the loop over delta.tool_calls, for one entry.
tool_call_events(tc) ==
    IF tc.function = None THEN << >>
    ELSE (IF tc.id # None /\ tc.function[1].name # None
          THEN <<Ok(ToolCallStart(tc.id[1], tc.function[1].name[1]))>>
          ELSE << >>)
         \o (IF tc.function[1].arguments # None /\ tc.function[1].arguments[1] # << >>
             THEN <<Ok(ToolCallDelta(tc.function[1].arguments[1]))>>
             ELSE << >>)

\* The loop over delta.tool_calls from entry i on.
RECURSIVE tool_calls_events(_, _)
tool_calls_events(tool_calls, i) ==
    IF i > Len(tool_calls) THEN << >>
    ELSE tool_call_events(tool_calls[i]) \o tool_calls_events(tool_calls, i + 1)

\* Mutant of message_start_due: the message_started flag is not consulted.
message_start_due_on_every_role(self, choice) == choice.delta.role = Some("assistant")

\* The first if-let of process_chunk: this chunk opens the message.
message_start_due(self, choice) ==
    choice.delta.role = Some("assistant") /\ ~self.message_started

\* Mutant of start_events: every chunk with the role opens a message.
start_events_on_every_role(self, chunk) ==
    IF chunk.choices[1].delta.role = Some("assistant")
    THEN <<Ok(MessageStart(chunk.model, "openai"))>>
    ELSE << >>

start_events(self, chunk) ==
    IF message_start_due(self, chunk.choices[1])
    THEN <<Ok(MessageStart(chunk.model, "openai"))>>
    ELSE << >>

content_events(delta) ==
    IF delta.content # None /\ delta.content[1] # << >>
    THEN <<Ok(MessageDelta(delta.content[1]))>>
    ELSE << >>

delta_tool_events(delta) ==
    IF delta.tool_calls # None THEN tool_calls_events(delta.tool_calls[1], 1) ELSE << >>

\* self.stop_reason after the if-let on finish_reason.
stop_reason_after(self, choice) ==
    IF choice.finish_reason # None
    THEN Some(openai_stop_reason(choice.finish_reason[1]))
    ELSE self.stop_reason

\* Mutant of usage_events: tool_calls are not looked at.
usage_events_beside_tool_calls(chunk, stop_reason) ==
    IF /\ chunk.usage # None
       /\ (chunk.choices[1].delta.content = None
             \/ chunk.choices[1].delta.content[1] = << >>)
    THEN <<Ok(MessageEnd(chunk.usage[1].prompt_tokens,
                         chunk.usage[1].completion_tokens, stop_reason))>>
    ELSE << >>

\* Mutant of usage_events: the usage of any choice chunk ends the message.
usage_events_unguarded(chunk, stop_reason) ==
    IF chunk.usage # None
    THEN <<Ok(MessageEnd(chunk.usage[1].prompt_tokens,
                         chunk.usage[1].completion_tokens, stop_reason))>>
    ELSE << >>

\* The last if-let of process_chunk: usage on a chunk with choices whose
\* delta is empty.
usage_events(chunk, stop_reason) ==
    IF /\ chunk.usage # None
       /\ (chunk.choices[1].delta.content = None
             \/ chunk.choices[1].delta.content[1] = << >>)
       /\ (chunk.choices[1].delta.tool_calls = None
             \/ chunk.choices[1].delta.tool_calls[1] = << >>)
    THEN <<Ok(MessageEnd(chunk.usage[1].prompt_tokens,
                         chunk.usage[1].completion_tokens, stop_reason))>>
    ELSE << >>

\* OpenAiStreamAdapter::process_chunk(&mut self, chunk)
process_chunk(self, chunk) ==
    IF chunk.choices = << >>
    THEN Processed(self,
                   IF chunk.usage # None
                   THEN <<Ok(MessageEnd(chunk.usage[1].prompt_tokens,
                                        chunk.usage[1].completion_tokens,
                                        self.stop_reason))>>
                   ELSE << >>)
    ELSE Processed(
            [stop_reason |-> stop_reason_after(self, chunk.choices[1]),
             message_started |->
                 self.message_started \/ message_start_due(self, chunk.choices[1])],
            start_events(self, chunk)
              \o content_events(chunk.choices[1].delta)
              \o delta_tool_events(chunk.choices[1].delta)
              \o usage_events(chunk, stop_reason_after(self, chunk.choices[1])))

-----------------------------------------------------------------------------
(* What a provider may send: any frames, in any order.                     *)

InputTokenCounts == {13}
OutputTokenCounts == {21}
WireStopReasons == {None, Some("tool_use")}
ContentBlocks == {BlockToolUse("call_1", "weather"), BlockText}
ContentBlockDeltas ==
    {TextDelta(<<"a">>), WireThinkingDelta(<<"t">>), InputJsonDelta(<<"{">>),
     SignatureDelta}
WireErrors == {"overloaded"}

ChunkRoles == {None, Some("assistant")}
ChunkContents == {None, Some(<< >>), Some(<<"a">>)}
ChunkToolCalls ==
    {ChunkToolCall(Some("call_1"), Some(ChunkFunctionCall(Some("weather"), Some(<<"{">>)))),
     ChunkToolCall(None, Some(ChunkFunctionCall(None, Some(<<"}">>)))),
     ChunkToolCall(Some("call_1"), None)}
ChunkToolCallLists ==
    {None, Some(<< >>)} \cup {Some(<<tc>>) : tc \in ChunkToolCalls}
FinishReasons == {None, Some("tool_calls")}
ChunkUsages == {None, Some(ChatUsage(11, 22))}

\* The order of the frames received so far, as the provider's protocol sees
\* it: the message was opened, a tool call was opened, the message was ended
\* (the frame that yields MessageEnd came), the stream was closed
\* (message_stop), how many finish_reasons came (2 for more), and whether the
\* frames so far kept the order (in_order) and the complete protocol
\* (well_formed); the input_tokens of the last message_start and the last
\* finish_reason that came, if any; how many chunks had the assistant role
\* (2 for more).
WireInit ==
    [started |-> FALSE, tool_started |-> FALSE, ended |-> FALSE, closed |-> FALSE,
     finishes |-> 0, in_order |-> TRUE, well_formed |-> TRUE,
     input_tokens |-> None, finish_reason |-> None, roles |-> 0]

\* The frames that carry a neutral event.
AnthropicCarriesEvent(frame) ==
    \/ frame.type \in {"message_start", "message_delta"}
    \/ frame.type = "content_block_start" /\ frame.content_block.type = "tool_use"
    \/ frame.type = "content_block_delta"
       /\ frame.delta.type \in {"text_delta", "thinking_delta", "input_json_delta"}

IsInputJsonDelta(frame) ==
    frame.type = "content_block_delta" /\ frame.delta.type = "input_json_delta"

\* The event-carrying frames keep their order: message_start first and once,
\* input_json_delta after a tool_use block was opened, nothing after
\* message_delta.
AnthropicInOrder(w, frame) ==
    /\ frame.type = "message_start" => ~w.started
    /\ (AnthropicCarriesEvent(frame) /\ frame.type # "message_start") => w.started
    /\ IsInputJsonDelta(frame) => w.tool_started
    /\ AnthropicCarriesEvent(frame) => ~w.ended

\* The frame continues a well-formed stream: one message_start, then
\* content_block frames (input_json_delta after a tool_use block was opened),
\* then one message_delta, then message_stop; pings anywhere.
AnthropicWellFormed(w, frame) ==
    CASE frame.type = "ping" -> TRUE
      [] frame.type = "message_start" -> ~w.started
      [] frame.type \in {"content_block_start", "content_block_delta",
                         "content_block_stop"} ->
            w.started /\ ~w.ended /\ (IsInputJsonDelta(frame) => w.tool_started)
      [] frame.type = "message_delta" -> w.started /\ ~w.ended
      [] frame.type = "message_stop" -> w.ended /\ ~w.closed
      [] OTHER -> FALSE

AnthropicWire(w, frame) ==
    [started |-> w.started \/ frame.type = "message_start",
     tool_started |-> w.tool_started
                        \/ (frame.type = "content_block_start"
                             /\ frame.content_block.type = "tool_use"),
     ended |-> w.ended \/ frame.type = "message_delta",
     closed |-> w.closed \/ frame.type = "message_stop",
     finishes |-> w.finishes,
     in_order |-> w.in_order /\ AnthropicInOrder(w, frame),
     well_formed |-> w.well_formed /\ AnthropicWellFormed(w, frame),
     input_tokens |-> IF frame.type = "message_start"
                      THEN Some(frame.message.usage.input_tokens)
                      ELSE w.input_tokens,
     finish_reason |-> w.finish_reason,
     roles |-> w.roles]

\* A tool_calls entry that opens a tool call; one that carries arguments.
OpensToolCall(tc) ==
    tc.function # None /\ tc.id # None /\ tc.function[1].name # None
CarriesArguments(tc) ==
    /\ tc.function # None
    /\ tc.function[1].arguments # None
    /\ tc.function[1].arguments[1] # << >>

ChunkToolCallsOf(chunk) ==
    IF chunk.choices = << >> \/ chunk.choices[1].delta.tool_calls = None THEN << >>
    ELSE chunk.choices[1].delta.tool_calls[1]

\* From entry i on, every entry that does not open a tool call comes after
\* one that did (opened tells whether one did before entry i).
RECURSIVE FragmentsFollowStart(_, _, _)
FragmentsFollowStart(tcs, i, opened) ==
    IF i > Len(tcs) THEN TRUE
    ELSE /\ OpensToolCall(tcs[i]) \/ opened \/ ~CarriesArguments(tcs[i])
         /\ FragmentsFollowStart(tcs, i + 1, opened \/ OpensToolCall(tcs[i]))

RECURSIVE EveryEntryFollowsStart(_, _, _)
EveryEntryFollowsStart(tcs, i, opened) ==
    IF i > Len(tcs) THEN TRUE
    ELSE /\ OpensToolCall(tcs[i]) \/ opened
         /\ EveryEntryFollowsStart(tcs, i + 1, opened \/ OpensToolCall(tcs[i]))

ChunkHasRole(chunk) ==
    chunk.choices # << >> /\ chunk.choices[1].delta.role = Some("assistant")
ChunkHasContent(chunk) ==
    /\ chunk.choices # << >>
    /\ chunk.choices[1].delta.content # None
    /\ chunk.choices[1].delta.content[1] # << >>
ChunkHasFinish(chunk) ==
    chunk.choices # << >> /\ chunk.choices[1].finish_reason # None
\* The chunk carries the usage that ends the message: alone, or beside a
\* choice whose delta is empty.
ChunkEndsMessage(chunk) ==
    /\ chunk.usage # None
    /\ ~ChunkHasContent(chunk)
    /\ ChunkToolCallsOf(chunk) = << >>

\* The chunk carries a neutral event other than the opening one.
ChunkCarriesEvent(chunk) ==
    \/ ChunkHasContent(chunk)
    \/ ChunkEndsMessage(chunk)
    \/ \E i \in 1..Len(ChunkToolCallsOf(chunk)) :
          OpensToolCall(ChunkToolCallsOf(chunk)[i])
            \/ CarriesArguments(ChunkToolCallsOf(chunk)[i])

\* The event-carrying chunks keep their order: the role comes with or before
\* the first of them, argument fragments after an entry with id and name,
\* nothing after the usage that ends the message.
OpenAiInOrder(w, chunk) ==
    /\ ChunkCarriesEvent(chunk) => (w.started \/ ChunkHasRole(chunk))
    /\ FragmentsFollowStart(ChunkToolCallsOf(chunk), 1, w.tool_started)
    /\ (ChunkCarriesEvent(chunk) \/ (ChunkHasRole(chunk) /\ ~w.started)) => ~w.ended

\* The chunk continues a well-formed stream: the first chunk has the role,
\* later ones content and tool_calls entries whose first fragment has id and
\* name, one chunk has finish_reason, and the last one has no choices and
\* the usage.
OpenAiWellFormed(w, chunk) ==
    /\ ~w.ended
    /\ ~w.started => ChunkHasRole(chunk)
    /\ ChunkHasFinish(chunk) => w.finishes = 0
    /\ EveryEntryFollowsStart(ChunkToolCallsOf(chunk), 1, w.tool_started)
    /\ IF chunk.choices = << >>
       THEN chunk.usage # None /\ w.finishes = 1
       ELSE chunk.usage = None

OpenAiWire(w, chunk) ==
    [started |-> w.started \/ ChunkHasRole(chunk),
     tool_started |-> w.tool_started
                        \/ \E i \in 1..Len(ChunkToolCallsOf(chunk)) :
                              OpensToolCall(ChunkToolCallsOf(chunk)[i]),
     ended |-> w.ended \/ ChunkEndsMessage(chunk),
     closed |-> w.closed,
     finishes |-> IF ~ChunkHasFinish(chunk) THEN w.finishes
                  ELSE IF w.finishes = 0 THEN 1 ELSE 2,
     in_order |-> w.in_order /\ OpenAiInOrder(w, chunk),
     well_formed |-> w.well_formed /\ OpenAiWellFormed(w, chunk),
     input_tokens |-> w.input_tokens,
     finish_reason |-> IF ChunkHasFinish(chunk) THEN chunk.choices[1].finish_reason
                       ELSE w.finish_reason,
     roles |-> IF ~ChunkHasRole(chunk) THEN w.roles
               ELSE IF w.roles = 0 THEN 1 ELSE 2]

-----------------------------------------------------------------------------
(* SpecAdapters: one driver's adapter, fed the frames of one response; what *)
(* it returns is appended to the outgoing stream.                          *)

InitAdapters ==
    /\ provider \in {"anthropic", "openai"}
    /\ anthropic = AnthropicStreamAdapter_new
    /\ openai = OpenAiStreamAdapter_new
    /\ emitted = << >>
    /\ wire = WireInit
    /\ feed = [kind |-> "none"]
    /\ http = [result |-> Pending]
    /\ sse = [frames |-> 0]
    /\ outbound = [result |-> Pending]
    /\ registry = [calls |-> << >>]
    /\ stream = << >>
    /\ stream_ended = FALSE
    /\ validator = EventOrderValidator_new
    /\ verdicts = << >>
    /\ asm = from_stream_locals
    /\ asm_result = Pending

\* output.extend(adapter.process_event(event))
AnthropicFeed(frame) ==
    /\ provider = "anthropic"
    /\ Len(emitted) + Len(process_event(anthropic, frame).events) <= MaxEmitted
    /\ anthropic' = process_event(anthropic, frame).self
    /\ emitted' = emitted \o process_event(anthropic, frame).events
    /\ wire' = AnthropicWire(wire, frame)
    /\ UNCHANGED <<provider, openai, stream, stream_ended, validator, verdicts,
                   asm, asm_result, feed, http, sse, outbound, registry>>

ReceiveMessageStart ==
    \E m \in Models, n \in InputTokenCounts : AnthropicFeed(WireMessageStart(m, n))
ReceiveContentBlockStart ==
    \E b \in ContentBlocks : AnthropicFeed(WireContentBlockStart(b))
ReceiveContentBlockDelta ==
    \E d \in ContentBlockDeltas : AnthropicFeed(WireContentBlockDelta(d))
ReceiveContentBlockStop == AnthropicFeed(WireContentBlockStop)
ReceiveMessageDelta ==
    \E r \in WireStopReasons, n \in OutputTokenCounts :
        AnthropicFeed(WireMessageDelta(r, n))
ReceiveMessageStop == AnthropicFeed(WireMessageStop)
ReceivePing == AnthropicFeed(WirePing)
ReceiveError == \E e \in WireErrors : AnthropicFeed(WireError(e))

\* output.extend(adapter.process_chunk(chunk))
OpenAiFeed(chunk) ==
    /\ provider = "openai"
    /\ Len(emitted) + Len(process_chunk(openai, chunk).events) <= MaxEmitted
    /\ openai' = process_chunk(openai, chunk).self
    /\ emitted' = emitted \o process_chunk(openai, chunk).events
    /\ wire' = OpenAiWire(wire, chunk)
    /\ UNCHANGED <<provider, anthropic, stream, stream_ended, validator, verdicts,
                   asm, asm_result, feed, http, sse, outbound, registry>>

ReceiveChoiceChunk ==
    \E role \in ChunkRoles, content \in ChunkContents,
       tool_calls \in ChunkToolCallLists, finish_reason \in FinishReasons,
       usage \in ChunkUsages, m \in Models :
        OpenAiFeed(ChatCompletionChunk(
            m, <<ChunkChoice(ChunkDelta(role, content, tool_calls), finish_reason)>>,
            usage))

ReceiveUsageChunk ==
    \E usage \in ChunkUsages, m \in Models :
        OpenAiFeed(ChatCompletionChunk(m, << >>, usage))

NextAdapters ==
    \/ ReceiveMessageStart
    \/ ReceiveContentBlockStart
    \/ ReceiveContentBlockDelta
    \/ ReceiveContentBlockStop
    \/ ReceiveMessageDelta
    \/ ReceiveMessageStop
    \/ ReceivePing
    \/ ReceiveError
    \/ ReceiveChoiceChunk
    \/ ReceiveUsageChunk

SpecAdapters == InitAdapters /\ [][NextAdapters]_vars

-----------------------------------------------------------------------------
(* SpecMessageEnd: the adapters again, fed the frames that open and close  *)
(* a message, with every stop reason and two input token counts, and text. *)

AllInputTokenCounts == {13, 17}
AllWireStopReasons ==
    {None, Some("end_turn"), Some("max_tokens"), Some("tool_use"),
     Some("stop_sequence"), Some("refusal")}
AllFinishReasons ==
    {None, Some("stop"), Some("length"), Some("tool_calls"), Some("content_filter"),
     Some("function_call")}

ReceiveMessageStartWithUsage ==
    \E m \in Models, n \in AllInputTokenCounts : AnthropicFeed(WireMessageStart(m, n))

ReceiveTextDelta == \E t \in TextChunks : AnthropicFeed(WireContentBlockDelta(TextDelta(t)))

ReceiveMessageDeltaWithStop ==
    \E r \in AllWireStopReasons, n \in OutputTokenCounts :
        AnthropicFeed(WireMessageDelta(r, n))

\* A chunk with one choice: a role or none, a text or none, a finish_reason
\* or none, and no usage.
ReceiveTextChunk ==
    \E role \in ChunkRoles, content \in ChunkContents,
       finish_reason \in AllFinishReasons, m \in Models :
        OpenAiFeed(ChatCompletionChunk(
            m, <<ChunkChoice(ChunkDelta(role, content, None), finish_reason)>>, None))

\* The chunk that ends the message: the usage with no choices, or beside a
\* choice whose delta is empty.
ReceiveTrailingUsageChunk ==
    \E usage \in ChunkUsages, m \in Models,
       choices \in {<< >>} \cup {<<ChunkChoice(ChunkDelta(role, None, None), None)>> :
                                     role \in ChunkRoles} :
        OpenAiFeed(ChatCompletionChunk(m, choices, usage))

NextMessageEnd ==
    \/ ReceiveMessageStartWithUsage
    \/ ReceiveTextDelta
    \/ ReceiveMessageDeltaWithStop
    \/ ReceiveTextChunk
    \/ ReceiveTrailingUsageChunk

SpecMessageEnd == InitAdapters /\ [][NextMessageEnd]_vars

-----------------------------------------------------------------------------
(* HTTP transport with retry: core/src/http.rs.  Durations are whole       *)
(* milliseconds.                                                           *)

MAX_RETRIES_CAP == 10

Min(a, b) == IF a <= b THEN a ELSE b

\* RetryStatusRule and RetryNetworkRule
Code(code) == [rule |-> "Code", code |-> code]
ServerError == [rule |-> "ServerError", code |-> 0]
Timeout == "Timeout"
Connect == "Connect"
Request == "Request"

RetryPolicy(max_retries, base_delay, max_delay, jitter, retryable_statuses, retryable_network_errors) ==
    [max_retries |-> max_retries, base_delay |-> base_delay, max_delay |-> max_delay,
     jitter |-> jitter, retryable_statuses |-> retryable_statuses,
     retryable_network_errors |-> retryable_network_errors]

TimeoutPolicy(request_timeout, total_timeout) ==
    [request_timeout |-> request_timeout, total_timeout |-> total_timeout]

RequestOptions(timeout, max_retries, retry_policy, timeout_policy) ==
    [timeout |-> timeout, max_retries |-> max_retries, retry_policy |-> retry_policy,
     timeout_policy |-> timeout_policy]

RetryConfig(retry_policy, timeout_policy) ==
    [retry_policy |-> retry_policy, timeout_policy |-> timeout_policy]

\* What request_builder.send().await returns: a response (its status, the
\* value of its Retry-After header if it has one, what response.text() gives)
\* or a reqwest::Error (what is_timeout, is_connect, is_request say of it).
Response(status, retry_after, text) ==
    [class |-> "response", status |-> status, retry_after |-> retry_after,
     text |-> text]
NetworkFailure(cause, timeout, connect, request) ==
    [class |-> "network", cause |-> cause, timeout |-> timeout, connect |-> connect,
     request |-> request]

\* SdkError::ApiError with each of the three messages send_with_retry formats,
\* and SdkError::NetworkError.
ApiFailed(status, error_text) ==
    [kind |-> "ApiError",
     detail |-> <<"API request failed (status {}): {}", status, error_text>>]
ApiBudgetExceeded(total_timeout) ==
    [kind |-> "ApiError",
     detail |-> <<"API request aborted: total timeout budget of {:?} was exceeded",
                  total_timeout>>]
ApiWaitExceedsBudget(wait, total_timeout) ==
    [kind |-> "ApiError",
     detail |-> <<"API request aborted: waiting {:?} would exceed total timeout budget {:?}",
                  wait, total_timeout>>]
NetworkError(e) == [kind |-> "NetworkError", detail |-> e]

is_success(status) == 200 <= status /\ status <= 299
is_server_error(status) == 500 <= status /\ status <= 599

should_retry_status(status, retry_policy) ==
    \E i \in 1..Len(retry_policy.retryable_statuses) :
        IF retry_policy.retryable_statuses[i].rule = "Code"
        THEN status = retry_policy.retryable_statuses[i].code
        ELSE is_server_error(status)

should_retry_network_error(error, retry_policy) ==
    \E i \in 1..Len(retry_policy.retryable_network_errors) :
        CASE retry_policy.retryable_network_errors[i] = Timeout -> error.timeout
          [] retry_policy.retryable_network_errors[i] = Connect -> error.connect
          [] retry_policy.retryable_network_errors[i] = Request -> error.request

\* The values seed % max_jitter_ms can take.
random_jitter(max_jitter_ms) ==
    IF max_jitter_ms = 0 THEN {0} ELSE 0..(max_jitter_ms - 1)

\* Mutant of retry_delay: the backoff grows by base_delay, not by doubling.
retry_delay_linear(attempt, retry_policy, jitter) ==
    Min(Min(retry_policy.base_delay * attempt, retry_policy.max_delay) + jitter,
        retry_policy.max_delay)

\* Mutant of exceeds_total_budget: the wait is left out of the sum.
exceeds_total_budget_ignores_wait(elapsed, total_timeout, next_wait) ==
    elapsed > total_timeout

\* Mutant of retry_delay: the multiplier halves from attempt to attempt.
retry_delay_shrinking(attempt, retry_policy, jitter) ==
    Min(Min(retry_policy.base_delay * 2 ^ (10 - Min(attempt, 10)),
            retry_policy.max_delay) + jitter,
        retry_policy.max_delay)

\* retry_delay, given the value random_jitter returned.
retry_delay(attempt, retry_policy, jitter) ==
    Min(Min(retry_policy.base_delay
              * 2 ^ (IF Min(attempt, 10) = 0 THEN 0 ELSE Min(attempt, 10) - 1),
            retry_policy.max_delay) + jitter,
        retry_policy.max_delay)

\* str::trim, over header values whose only whitespace is the space.
\* char::is_whitespace, on the characters that occur here.
IsWhitespace(c) == c \in {" ", "\t", "\n"}

RECURSIVE trim_start(_)
trim_start(s) ==
    IF s # << >> /\ IsWhitespace(Head(s)) THEN trim_start(Tail(s)) ELSE s

RECURSIVE trim_end(_)
trim_end(s) ==
    IF s # << >> /\ IsWhitespace(s[Len(s)]) THEN trim_end(SubSeq(s, 1, Len(s) - 1)) ELSE s

trim(s) == trim_end(trim_start(s))

DecimalDigits == <<"0", "1", "2", "3", "4", "5", "6", "7", "8", "9">>

IsDecimalDigit(c) == \E d \in 1..10 : DecimalDigits[d] = c

DigitValue(c) == (CHOOSE d \in 1..10 : DecimalDigits[d] = c) - 1

RECURSIVE DecimalValue(_)
DecimalValue(digits) ==
    IF digits = << >> THEN 0
    ELSE DecimalValue(SubSeq(digits, 1, Len(digits) - 1)) * 10
           + DigitValue(digits[Len(digits)])

\* The digits of what str::parse::<u64> reads: a leading "+" is allowed.
Unsigned(s) == IF s # << >> /\ Head(s) = "+" THEN Tail(s) ELSE s

\* str::parse::<u64>, .ok(): one or more decimal digits after an optional
\* "+"; anything else is an error.  (The header values of the model are far
\* below u64::MAX.)
parse_u64(s) ==
    IF Unsigned(s) = << >> THEN None
    ELSE IF \E i \in 1..Len(Unsigned(s)) : ~IsDecimalDigit(Unsigned(s)[i]) THEN None
    ELSE Some(DecimalValue(Unsigned(s)))

\* Mutant of retry_after_delay: the hint is not capped by max_delay.
retry_after_delay_uncapped(response, retry_policy) ==
    IF response.retry_after = None THEN None
    ELSE IF parse_u64(trim(response.retry_after[1])) = None THEN None
    ELSE Some(parse_u64(trim(response.retry_after[1]))[1] * 1000)

\* headers.get(RETRY_AFTER)?, then to_str, trim and parse::<u64>, then
\* Duration::from_secs(seconds).min(max_delay).  A header value of the model
\* is its characters, all of them visible ASCII or spaces.
retry_after_delay(response, retry_policy) ==
    IF response.retry_after = None THEN None
    ELSE IF parse_u64(trim(response.retry_after[1])) = None THEN None
    ELSE Some(Min(parse_u64(trim(response.retry_after[1]))[1] * 1000,
                  retry_policy.max_delay))

\* Mutant of clamp_retry_policy: the policy is left as it is.
clamp_retry_policy_unclamped(policy) == policy

clamp_retry_policy(policy) ==
    [policy EXCEPT !.max_retries = Min(policy.max_retries, MAX_RETRIES_CAP)]

resolve_retry_policy(config, options) ==
    IF options.retry_policy # None THEN clamp_retry_policy(options.retry_policy[1])
    ELSE IF options.max_retries # None
    THEN clamp_retry_policy([config.retry_policy EXCEPT
                                !.max_retries = options.max_retries[1]])
    ELSE clamp_retry_policy(config.retry_policy)

resolve_timeout_policy(config, options) ==
    IF options.timeout_policy # None THEN options.timeout_policy[1]
    ELSE IF options.timeout # None
    THEN [config.timeout_policy EXCEPT !.request_timeout = options.timeout]
    ELSE config.timeout_policy

exceeds_total_budget(elapsed, total_timeout, next_wait) ==
    elapsed + next_wait > total_timeout

\* Time since started_at is followed up to this many milliseconds.
ElapsedCap == 7

Elapse(elapsed, duration) == Min(elapsed + duration, ElapsedCap)

\* The locals of send_with_retry before its loop, and what the call has done
\* so far: the sends (attempts), the sleeps, the last wait slept, the last
\* outcome of a send, the classes of the failures so far, and whether every
\* failure so far was a retryable one.
send_with_retry_locals(config, options) ==
    [retry_policy |-> resolve_retry_policy(config, options),
     timeout_policy |-> resolve_timeout_policy(config, options),
     max_retries |-> resolve_retry_policy(config, options).max_retries,
     elapsed |-> 0,
     retries |-> 0,
     attempts |-> 0,
     sleeps |-> 0,
     wait |-> None,
     last |-> None,
     classes |-> {},
     transient_only |-> TRUE,
     result |-> Pending]

\* Mutant of retries_remain: the last retry is not taken.
retries_remain_one_less(h) == h.retries + 1 < h.max_retries

\* retries < max_retries
retries_remain(h) == h.retries < h.max_retries

\* Mutant of error_text: the body is dropped.
error_text_dropped(response) == ""

\* response.text().await.unwrap_or_default()
error_text(response) == IF response.text = None THEN "" ELSE response.text[1]

\* Mutant of status_failure: the call sleeps and goes on.
status_failure_retried(h, response) ==
    [h EXCEPT !.retries = @ + 1, !.sleeps = @ + 1,
              !.wait = Some([ms |-> h.retry_policy.base_delay,
                             from_retry_after |-> FALSE])]

\* The status is not retried: return Err(ApiError(..)).
status_failure(h, response) ==
    [h EXCEPT !.result = Err(ApiFailed(response.status, error_text(response)))]

\* After retries += 1 and the computation of wait: the budget check, then
\* the sleep.
sleep_or_abort(h, wait, from_retry_after) ==
    IF /\ h.timeout_policy.total_timeout # None
       /\ exceeds_total_budget(h.elapsed, h.timeout_policy.total_timeout[1], wait)
    THEN [h EXCEPT !.result =
                     Err(ApiWaitExceedsBudget(wait, h.timeout_policy.total_timeout[1]))]
    ELSE [h EXCEPT !.sleeps = @ + 1,
                   !.wait = Some([ms |-> wait, from_retry_after |-> from_retry_after]),
                   !.elapsed = Elapse(@, wait)]

\* The wait after a retryable status, retries being already incremented.
status_wait(h, response, jitter) ==
    IF retry_after_delay(response, h.retry_policy) # None
    THEN retry_after_delay(response, h.retry_policy)[1]
    ELSE retry_delay(h.retries, h.retry_policy, jitter)

\* The Ok(response) arm of the match on response_result.
on_response(h, response, jitter) ==
    IF is_success(response.status) THEN [h EXCEPT !.result = Ok(response)]
    ELSE IF should_retry_status(response.status, h.retry_policy) /\ retries_remain(h)
    THEN sleep_or_abort([h EXCEPT !.retries = @ + 1],
                        status_wait([h EXCEPT !.retries = @ + 1], response, jitter),
                        retry_after_delay(response, h.retry_policy) # None)
    ELSE status_failure(h, response)

\* Mutant of on_network_error: the retry is not counted.
on_network_error_uncounted(h, e, jitter) ==
    IF should_retry_network_error(e, h.retry_policy) /\ retries_remain(h)
    THEN sleep_or_abort(h, retry_delay(h.retries + 1, h.retry_policy, jitter), FALSE)
    ELSE [h EXCEPT !.result = Err(NetworkError(e))]

\* The Err(e) arm of the match on response_result.
on_network_error(h, e, jitter) ==
    IF should_retry_network_error(e, h.retry_policy) /\ retries_remain(h)
    THEN sleep_or_abort([h EXCEPT !.retries = @ + 1],
                        retry_delay(h.retries + 1, h.retry_policy, jitter), FALSE)
    ELSE [h EXCEPT !.result = Err(NetworkError(e))]

\* The policy retries this outcome of a send.
Transient(h, outcome) ==
    IF outcome.class = "response"
    THEN ~is_success(outcome.status) /\ should_retry_status(outcome.status, h.retry_policy)
    ELSE should_retry_network_error(outcome, h.retry_policy)

\* request_builder.timeout(timeout): a send that has not returned when the
\* timeout has passed fails with a reqwest::Error that is_timeout.
within_request_timeout(h, outcome, duration) ==
    IF h.timeout_policy.request_timeout = None THEN TRUE
    ELSE IF duration < h.timeout_policy.request_timeout[1] THEN TRUE
    ELSE /\ duration = h.timeout_policy.request_timeout[1]
         /\ outcome.class = "network"
         /\ outcome.timeout

\* request_builder.send().await took this long and returned this outcome.
Sent(h, outcome, duration) ==
    [h EXCEPT !.attempts = @ + 1,
              !.elapsed = Elapse(@, duration),
              !.last = Some(outcome),
              !.classes = IF outcome.class = "response" /\ is_success(outcome.status)
                          THEN @ ELSE @ \cup {outcome.class},
              !.transient_only =
                  @ /\ ((outcome.class = "response" /\ is_success(outcome.status))
                          \/ Transient(h, outcome))]

\* One turn of the loop of send_with_retry.
loop_turn(h, outcome, duration, jitter) ==
    IF /\ h.timeout_policy.total_timeout # None
       /\ h.elapsed > h.timeout_policy.total_timeout[1]
    THEN [h EXCEPT !.result = Err(ApiBudgetExceeded(h.timeout_policy.total_timeout[1]))]
    ELSE IF outcome.class = "response"
    THEN on_response(Sent(h, outcome, duration), outcome, jitter)
    ELSE on_network_error(Sent(h, outcome, duration), outcome, jitter)

-----------------------------------------------------------------------------
(* SpecTransport: one call of send_with_retry, with any client policy, any *)
(* per-call options, and any outcome of each send.                         *)

DefaultStatuses == <<Code(408), Code(429), ServerError>>
DefaultNetworkErrors == <<Timeout, Connect, Request>>

ClientPolicies ==
    {RetryPolicy(2, 2, 8, 2, DefaultStatuses, DefaultNetworkErrors),
     RetryPolicy(12, 1, 3, 3, <<Code(429)>>, <<Timeout>>)}
OverridePolicies ==
    {RetryPolicy(999, 1, 2000, 0, DefaultStatuses, DefaultNetworkErrors)}
TimeoutPolicies == {TimeoutPolicy(None, Some(5)), TimeoutPolicy(Some(2), Some(5))}

RetryConfigs == {RetryConfig(p, TimeoutPolicy(None, None)) : p \in ClientPolicies}
RequestOptionsSet ==
    {RequestOptions(timeout, max_retries, retry_policy, timeout_policy) :
        timeout \in {None, Some(2)},
        max_retries \in {None, Some(0), Some(11)},
        retry_policy \in {None} \cup {Some(p) : p \in OverridePolicies},
        timeout_policy \in {None} \cup {Some(p) : p \in TimeoutPolicies}}

SuccessResponses == {Response(200, None, Some("ok"))}
FailureResponses ==
    {Response(500, None, Some("overloaded")),
     Response(503, None, None),
     Response(429, Some(<<" ", "1">>), Some("slow down")),
     Response(429, Some(<<"0">>), Some("slow down")),
     Response(429, Some(<<"1", ".", "5">>), Some("slow down")),
     Response(400, None, Some("bad request"))}
NetworkFailures ==
    {NetworkFailure("timed out", TRUE, FALSE, TRUE),
     NetworkFailure("connection refused", FALSE, TRUE, TRUE),
     NetworkFailure("builder error", FALSE, FALSE, FALSE)}
AttemptDurations == {0, 2}

InitTransport ==
    /\ \E config \in RetryConfigs, options \in RequestOptionsSet :
          http = send_with_retry_locals(config, options)
    /\ stream = << >>
    /\ stream_ended = FALSE
    /\ validator = EventOrderValidator_new
    /\ verdicts = << >>
    /\ asm = from_stream_locals
    /\ asm_result = Pending
    /\ provider = "none"
    /\ anthropic = [input_tokens |-> 0]
    /\ openai = [stop_reason |-> None, message_started |-> FALSE]
    /\ emitted = << >>
    /\ wire = [in_order |-> TRUE]
    /\ feed = [kind |-> "none"]
    /\ sse = [frames |-> 0]
    /\ outbound = [result |-> Pending]
    /\ registry = [calls |-> << >>]

LoopTurn(outcome, duration, jitter) ==
    /\ http.result = Pending
    /\ within_request_timeout(http, outcome, duration)
    /\ http' = loop_turn(http, outcome, duration, jitter)
    /\ UNCHANGED <<core_vars, adapter_vars, feed, sse, outbound, registry>>

SendSucceeds ==
    \E response \in SuccessResponses, duration \in AttemptDurations :
        LoopTurn(response, duration, 0)

SendReturnsFailureStatus ==
    \E response \in FailureResponses, duration \in AttemptDurations,
       jitter \in random_jitter(http.retry_policy.jitter) :
        LoopTurn(response, duration, jitter)

SendFails ==
    \E e \in NetworkFailures, duration \in AttemptDurations,
       jitter \in random_jitter(http.retry_policy.jitter) :
        LoopTurn(e, duration, jitter)

NextTransport ==
    \/ SendSucceeds
    \/ SendReturnsFailureStatus
    \/ SendFails

SpecTransport == InitTransport /\ [][NextTransport]_vars

-----------------------------------------------------------------------------
(* SpecTransportClock: the same call, with the clock that                  *)
(* started_at.elapsed() reads running on between the steps of the call: a  *)
(* sleep or a send returns later than the time it was given.               *)

\* A millisecond passes that no send and no sleep accounts for.
TimePasses ==
    /\ http.result = Pending
    /\ http.elapsed < ElapsedCap
    /\ http' = [http EXCEPT !.elapsed = Elapse(@, 1)]
    /\ UNCHANGED <<core_vars, adapter_vars, feed, sse, outbound, registry>>

NextTransportClock ==
    \/ SendSucceeds
    \/ SendReturnsFailureStatus
    \/ SendFails
    \/ TimePasses

SpecTransportClock == InitTransport /\ [][NextTransportClock]_vars

-----------------------------------------------------------------------------
(* SpecOptions: a caller builds the options of one call with the builders  *)
(* of RequestOptions, and send_with_retry resolves the two policies of the *)
(* call from the client's configuration and those options.                 *)

\* impl Default for RetryPolicy, and the derived Default of TimeoutPolicy
\* and of RequestOptions.
RetryPolicy_default ==
    RetryPolicy(2, 250, 8000, 200, DefaultStatuses, DefaultNetworkErrors)
TimeoutPolicy_default == TimeoutPolicy(None, None)
RequestOptions_new == RequestOptions(None, None, None, None)

\* Option::get_or_insert_with: the value the option holds afterwards.
get_or_insert_with(option, default) == IF option = None THEN default ELSE option[1]

with_timeout(self, timeout) ==
    [self EXCEPT
        !.timeout = Some(timeout),
        !.timeout_policy =
            Some([get_or_insert_with(self.timeout_policy, TimeoutPolicy_default)
                    EXCEPT !.request_timeout = Some(timeout)])]

with_retries(self, retries) ==
    [self EXCEPT
        !.max_retries = Some(retries),
        !.retry_policy =
            Some([get_or_insert_with(self.retry_policy, RetryPolicy_default)
                    EXCEPT !.max_retries = retries])]

with_retry_policy(self, policy) ==
    [self EXCEPT !.max_retries = Some(policy.max_retries),
                 !.retry_policy = Some(policy)]

with_timeout_policy(self, policy) ==
    [self EXCEPT !.timeout = policy.request_timeout,
                 !.timeout_policy = Some(policy)]

ClientConfigs ==
    {RetryConfig(p, t) : p \in ClientPolicies \cup {RetryPolicy_default},
                         t \in TimeoutPolicies \cup {TimeoutPolicy_default}}
RetriesGiven == {0, 3, 11}
TimeoutsGiven == {2, 4}

\* http holds the client's configuration, the options built so far, the
\* builders called on them, and the policies the call resolved.
InitOptions ==
    /\ \E config \in ClientConfigs :
          http = [config |-> config, options |-> RequestOptions_new,
                  called |-> {}, resolved |-> None]
    /\ stream = << >>
    /\ stream_ended = FALSE
    /\ validator = EventOrderValidator_new
    /\ verdicts = << >>
    /\ asm = from_stream_locals
    /\ asm_result = Pending
    /\ provider = "none"
    /\ anthropic = [input_tokens |-> 0]
    /\ openai = [stop_reason |-> None, message_started |-> FALSE]
    /\ emitted = << >>
    /\ wire = [in_order |-> TRUE]
    /\ feed = [kind |-> "none"]
    /\ sse = [frames |-> 0]
    /\ outbound = [result |-> Pending]
    /\ registry = [calls |-> << >>]

Built(builder, options) ==
    /\ http.resolved = None
    /\ http' = [http EXCEPT !.options = options, !.called = @ \cup {builder}]
    /\ UNCHANGED <<core_vars, adapter_vars, feed, sse, outbound, registry>>

WithRetries == \E n \in RetriesGiven : Built("with_retries", with_retries(http.options, n))
WithTimeout == \E t \in TimeoutsGiven : Built("with_timeout", with_timeout(http.options, t))
WithRetryPolicy ==
    \E p \in OverridePolicies : Built("with_retry_policy", with_retry_policy(http.options, p))
WithTimeoutPolicy ==
    \E p \in TimeoutPolicies : Built("with_timeout_policy", with_timeout_policy(http.options, p))

\* The first two statements of send_with_retry.
ResolvePolicies ==
    /\ http.resolved = None
    /\ http' = [http EXCEPT !.resolved =
                    Some([retry_policy |-> resolve_retry_policy(http.config, http.options),
                          timeout_policy |-> resolve_timeout_policy(http.config, http.options)])]
    /\ UNCHANGED <<core_vars, adapter_vars, feed, sse, outbound, registry>>

NextOptions ==
    \/ WithRetries
    \/ WithTimeout
    \/ WithRetryPolicy
    \/ WithTimeoutPolicy
    \/ ResolvePolicies

SpecOptions == InitOptions /\ [][NextOptions]_vars

-----------------------------------------------------------------------------
(* The components a specification does not exercise, at rest.              *)

CoreAtRest ==
    /\ stream = << >>
    /\ stream_ended = FALSE
    /\ validator = EventOrderValidator_new
    /\ verdicts = << >>
    /\ asm = from_stream_locals
    /\ asm_result = Pending
    /\ feed = [kind |-> "none"]

AdaptersAtRest ==
    /\ provider = "none"
    /\ anthropic = AnthropicStreamAdapter_new
    /\ openai = OpenAiStreamAdapter_new
    /\ emitted = << >>
    /\ wire = [in_order |-> TRUE]
    /\ http = [result |-> Pending]

-----------------------------------------------------------------------------
(* Chat-Completions chunk stream: openai/src/resources/chat.rs,            *)
(* ChatResource::create_stream_with_options.  response.bytes_stream()      *)
(* .eventsource() yields SSE events or errors; filter_map maps each to an  *)
(* item of the chunk stream, or to nothing.                                *)

\* Largest number of SSE frames one response carries.
MaxFrames == 4

SseEvent(data) == [class |-> "event", data |-> data]
SseFailure(message) == [class |-> "error", message |-> message]

\* The data lines of the model that are a ChatCompletionChunk in JSON, and
\* the chunk each one is.
ChunkData ==
    [data \in {"{\"model\":\"m1\",\"choices\":[],\"usage\":{..}}"} |->
        ChatCompletionChunk("m1", << >>, Some(ChatUsage(11, 22)))]

\* serde_json::from_str::<ChatCompletionChunk>(&event.data)
\*     .map_err(SdkError::SerializationError)
chunk_from_str(data) ==
    IF data \in DOMAIN ChunkData THEN Ok(ChunkData[data])
    ELSE Err(SerializationError("expected value"))

\* The closure given to filter_map: what one item of the event stream
\* becomes (None: nothing is yielded for it).
map_event_result(event_result) ==
    IF event_result.class = "event"
    THEN IF event_result.data = "[DONE]" THEN None
         ELSE Some(chunk_from_str(event_result.data))
    ELSE Some(Err(StreamError(event_result.message)))

\* The frames so far, whether a [DONE] came among them, whether the
\* response has ended, and the items the chunk stream has yielded.
ChatStream_new == [frames |-> 0, done |-> FALSE, ended |-> FALSE, items |-> << >>]

\* filter_map polls the event stream as long as it yields: every item is
\* given to the closure, and what the closure returns is yielded.
poll_next(s, event_result) ==
    [s EXCEPT !.frames = @ + 1,
              !.done = @ \/ (event_result.class = "event"
                               /\ event_result.data = "[DONE]"),
              !.items = @ \o map_event_result(event_result)]

SseDataLines ==
    {"[DONE]", "{\"model\":\"m1\",\"choices\":[],\"usage\":{..}}", "{\"model\":"}
SseFailures == {"unexpected end of stream"}

InitChatStream ==
    /\ sse = ChatStream_new
    /\ outbound = [result |-> Pending]
    /\ registry = [calls |-> << >>]
    /\ CoreAtRest
    /\ AdaptersAtRest

SseFrame(event_result) ==
    /\ ~sse.ended
    /\ sse.frames < MaxFrames
    /\ sse' = poll_next(sse, event_result)
    /\ UNCHANGED <<core_vars, adapter_vars, feed, http, outbound, registry>>

ReceiveSseData == \E data \in SseDataLines : SseFrame(SseEvent(data))

ReceiveSseFailure == \E message \in SseFailures : SseFrame(SseFailure(message))

\* The response body ends: the event stream, and with it the chunk stream,
\* returns None.
ResponseEnds ==
    /\ ~sse.ended
    /\ sse' = [sse EXCEPT !.ended = TRUE]
    /\ UNCHANGED <<core_vars, adapter_vars, feed, http, outbound, registry>>

NextChatStream ==
    \/ ReceiveSseData
    \/ ReceiveSseFailure
    \/ ResponseEnds

SpecChatStream == InitChatStream /\ [][NextChatStream]_vars

-----------------------------------------------------------------------------
(* Request normalization of the Messages-style driver:                     *)
(* to_anthropic_request (anthropic/src/normalization.rs), the wire types   *)
(* of anthropic/src/types/message.rs and their derived Serialize.          *)

\* InferenceMessage and the InferenceContent variant the result assembler
\* never builds.
InferenceMessage(role, content) == [role |-> role, content |-> content]
ToolResult(tool_use_id, content, is_error) ==
    [type |-> "ToolResult", tool_use_id |-> tool_use_id, content |-> content,
     is_error |-> is_error]

InferenceRequest(model, messages, max_tokens) ==
    [model |-> model, messages |-> messages, max_tokens |-> max_tokens]

\* types::message::ContentBlock variants of a request, Message and
\* MessageRequest.
ContentBlockText(text) == [variant |-> "Text", text |-> text]
ContentBlockToolUse(id, name, input) ==
    [variant |-> "ToolUse", id |-> id, name |-> name, input |-> input]
ContentBlockToolResult(tool_use_id, content, is_error) ==
    [variant |-> "ToolResult", tool_use_id |-> tool_use_id, content |-> content,
     is_error |-> is_error]
ContentBlockThinking(thinking, signature) ==
    [variant |-> "Thinking", thinking |-> thinking, signature |-> signature]
Message(role, content) == [role |-> role, content |-> content]
MessageRequest(model, messages, max_tokens) ==
    [model |-> model, messages |-> messages, max_tokens |-> max_tokens]

\* bool::then_some(true)
then_some_true(b) == IF b THEN Some(TRUE) ELSE None

\* The loop over msg.content in the User arm: Text only.
RECURSIVE user_content_blocks(_)
user_content_blocks(content) ==
    IF content = << >> THEN << >>
    ELSE (IF Head(content).type = "Text"
          THEN <<ContentBlockText(Head(content).text)>> ELSE << >>)
         \o user_content_blocks(Tail(content))

\* The match on one content of an Assistant message.
assistant_content_block(c) ==
    CASE c.type = "Text" -> <<ContentBlockText(c.text)>>
      [] c.type = "ToolUse" -> <<ContentBlockToolUse(c.id, c.name, c.input)>>
      [] c.type = "Thinking" -> <<ContentBlockThinking(c.content, None)>>
      [] OTHER -> << >>

RECURSIVE assistant_content_blocks(_)
assistant_content_blocks(content) ==
    IF content = << >> THEN << >>
    ELSE assistant_content_block(Head(content))
           \o assistant_content_blocks(Tail(content))

\* The block pushed for one ToolResult of a Tool message.
tool_result_block(c) ==
    ContentBlockToolResult(c.tool_use_id, Some(c.content), then_some_true(c.is_error))

\* The loop over msg.content in the Tool arm: ToolResult only.
RECURSIVE tool_content_blocks(_)
tool_content_blocks(content) ==
    IF content = << >> THEN << >>
    ELSE (IF Head(content).type = "ToolResult"
          THEN <<tool_result_block(Head(content))>> ELSE << >>)
         \o tool_content_blocks(Tail(content))

\* if !content_blocks.is_empty() { messages.push(Message { role, .. }) }
pushed(role, content_blocks) ==
    IF content_blocks # << >> THEN <<Message(role, content_blocks)>> ELSE << >>

\* The body of the loop over req.messages: the match on msg.role.
wire_messages_of(msg) ==
    CASE msg.role = "User" -> pushed("User", user_content_blocks(msg.content))
      [] msg.role = "Assistant" ->
            pushed("Assistant", assistant_content_blocks(msg.content))
      [] msg.role = "Tool" -> pushed("User", tool_content_blocks(msg.content))

RECURSIVE wire_messages(_)
wire_messages(messages) ==
    IF messages = << >> THEN << >>
    ELSE wire_messages_of(Head(messages)) \o wire_messages(Tail(messages))

\* to_anthropic_request(req), for a request with no system prompt, tools,
\* temperature or thinking budget.
to_anthropic_request(req) ==
    Ok(MessageRequest(req.model, wire_messages(req.messages),
                      IF req.max_tokens = None THEN 8192 ELSE req.max_tokens[1]))

\* serde_json::Value::Null and serde_json::Value::Bool
JsonNull == [json |-> "null"]
JsonBool(b) == [json |-> "bool", bool |-> b]

\* How the derived Serialize writes an Option field that has no
\* skip_serializing_if: null for None.
option_to_value(option) == IF option = None THEN JsonNull ELSE option[1]

\* Option<bool>
option_bool_to_value(option) ==
    IF option = None THEN JsonNull ELSE JsonBool(option[1])

\* The derived Serialize of ContentBlock (tag = "type", snake_case): a JSON
\* object, here the function from its keys to their values.
block_to_value(block) ==
    CASE block.variant = "Text" -> [type |-> "text", text |-> block.text]
      [] block.variant = "ToolUse" ->
            [type |-> "tool_use", id |-> block.id, name |-> block.name,
             input |-> block.input]
      [] block.variant = "ToolResult" ->
            [type |-> "tool_result", tool_use_id |-> block.tool_use_id,
             content |-> option_to_value(block.content),
             is_error |-> option_bool_to_value(block.is_error)]
      [] block.variant = "Thinking" ->
            [type |-> "thinking", thinking |-> block.thinking,
             signature |-> option_to_value(block.signature)]

\* Role is written in lowercase, Content::Blocks as the array of its blocks.
message_to_value(message) ==
    [role |-> IF message.role = "User" THEN "user" ELSE "assistant",
     content |-> [i \in 1..Len(message.content) |-> block_to_value(message.content[i])]]

\* serde_json::to_value(request), of the fields to_anthropic_request sets here.
request_to_value(request) ==
    [model |-> request.model,
     messages |-> [i \in 1..Len(request.messages) |->
                      message_to_value(request.messages[i])],
     max_tokens |-> request.max_tokens]

-----------------------------------------------------------------------------
(* SpecOutbound: one neutral request of up to two messages is normalized   *)
(* and serialized.                                                         *)

NeutralContents ==
    {<<Text(<<"a">>)>>,
     <<Thinking(<<"t">>), ToolUse("call_1", "weather", EmptyObject)>>,
     <<ToolResult("call_1", "ok", FALSE)>>,
     <<ToolResult("call_1", "boom", TRUE)>>,
     <<ToolResult("call_1", "ok", FALSE), ToolResult("call_2", "boom", TRUE)>>}

NeutralMessages ==
    {InferenceMessage(role, content) :
        role \in {"User", "Assistant", "Tool"}, content \in NeutralContents}

NeutralRequests ==
    {InferenceRequest("m1", messages, max_tokens) :
        messages \in {<<m>> : m \in NeutralMessages}
                       \cup {<<m, n>> : m \in {InferenceMessage("User", <<Text(<<"a">>)>>)},
                                        n \in NeutralMessages},
        max_tokens \in {None, Some(128)}}

InitOutbound ==
    /\ \E req \in NeutralRequests : outbound = [request |-> req, result |-> Pending]
    /\ sse = [frames |-> 0]
    /\ registry = [calls |-> << >>]
    /\ CoreAtRest
    /\ AdaptersAtRest

\* to_anthropic_request(req), then serde_json::to_value of what it returns.
NormalizeAndSerialize ==
    /\ outbound.result = Pending
    /\ outbound' = [outbound EXCEPT
                       !.result = Ok(request_to_value(
                                         to_anthropic_request(outbound.request).value))]
    /\ UNCHANGED <<core_vars, adapter_vars, feed, http, sse, registry>>

NextOutbound == NormalizeAndSerialize

SpecOutbound == InitOutbound /\ [][NextOutbound]_vars

-----------------------------------------------------------------------------
(* The provider registry (registry/src/lib.rs): a HashMap from normalized  *)
(* driver names to factories. A map is the function from its keys to its   *)
(* values.                                                                 *)

MaxRegisters == 3

ProviderInit_new(api_key) == [api_key |-> api_key, base_url |-> None]

\* RegistryError::UnknownDriver
UnknownDriver(driver, available) ==
    [kind |-> "UnknownDriver", driver |-> driver, available |-> available]

\* u8::to_ascii_lowercase on the letters that occur here.
ascii_lowercase(c) ==
    CASE c = "A" -> "a"
      [] c = "B" -> "b"
      [] OTHER -> c

to_ascii_lowercase(s) == [i \in 1..Len(s) |-> ascii_lowercase(s[i])]

\* Mutant of normalize_driver: the name is trimmed but keeps its case.
normalize_driver_keeps_case(driver) == trim(driver)

normalize_driver(driver) == to_ascii_lowercase(trim(driver))

\* The byte of a character, for the order of String.
Byte(c) ==
    CASE c = "\t" -> 9
      [] c = "\n" -> 10
      [] c = " " -> 32
      [] c = "A" -> 65
      [] c = "B" -> 66
      [] c = "a" -> 97
      [] c = "b" -> 98

\* a <= b for Strings: lexicographic in the bytes.
RECURSIVE string_le(_, _)
string_le(a, b) ==
    IF a = << >> THEN TRUE
    ELSE IF b = << >> THEN FALSE
    ELSE IF Head(a) = Head(b) THEN string_le(Tail(a), Tail(b))
    ELSE Byte(Head(a)) < Byte(Head(b))

\* keys().cloned().collect() followed by sort(): the keys in ascending order,
\* whatever order the map iterates in.
RECURSIVE sorted(_)
sorted(keys) ==
    IF keys = {} THEN << >>
    ELSE LET least == CHOOSE k \in keys : \A other \in keys : string_le(k, other)
         IN <<least>> \o sorted(keys \ {least})

ProviderRegistry_new == << >>

\* HashMap::insert: the new map and the value the key had before.
insert(map, key, value) ==
    [map |-> [k \in DOMAIN map \cup {key} |-> IF k = key THEN value ELSE map[k]],
     previous |-> IF key \in DOMAIN map THEN Some(map[key]) ELSE None]

register(factories, driver, factory) == insert(factories, normalize_driver(driver), factory)

drivers(factories) == sorted(DOMAIN factories)

\* Calling a factory: the provider it builds from init.
call_factory(factory, init) == Ok([built_by |-> factory, api_key |-> init.api_key])

create(factories, driver, init) ==
    LET key == normalize_driver(driver)
    IN IF key \in DOMAIN factories
       THEN call_factory(factories[key], init)
       ELSE Err(UnknownDriver(driver, drivers(factories)))

-----------------------------------------------------------------------------
(* SpecRegistry: register, create and drivers calls on one registry, in    *)
(* any order. calls is the history of the register calls.                  *)

DriverNames ==
    {<<"a">>, <<" ", "A">>, <<"b">>, <<"B", "\t">>, <<"a", "b">>, <<"A", " ", "b">>}

Factories == {"factory_1", "factory_2"}

TestInit == ProviderInit_new("test-key")

InitRegistry ==
    /\ registry = [factories |-> ProviderRegistry_new, calls |-> << >>,
                   last |-> [op |-> "new"]]
    /\ sse = [frames |-> 0]
    /\ outbound = [result |-> Pending]
    /\ CoreAtRest
    /\ AdaptersAtRest

Register ==
    /\ Len(registry.calls) < MaxRegisters
    /\ \E driver \in DriverNames, factory \in Factories :
          LET inserted == register(registry.factories, driver, factory)
          IN registry' = [factories |-> inserted.map,
                          calls |-> Append(registry.calls,
                                           [driver |-> driver, factory |-> factory]),
                          last |-> [op |-> "register", previous |-> inserted.previous]]
    /\ UNCHANGED <<core_vars, adapter_vars, feed, http, sse, outbound>>

Create ==
    /\ \E driver \in DriverNames :
          registry' = [registry EXCEPT
                          !.last = [op |-> "create", driver |-> driver,
                                    result |-> create(registry.factories, driver, TestInit)]]
    /\ UNCHANGED <<core_vars, adapter_vars, feed, http, sse, outbound>>

Drivers ==
    /\ registry' = [registry EXCEPT
                       !.last = [op |-> "drivers", result |-> drivers(registry.factories)]]
    /\ UNCHANGED <<core_vars, adapter_vars, feed, http, sse, outbound>>

NextRegistry == Register \/ Create \/ Drivers

SpecRegistry == InitRegistry /\ [][NextRegistry]_vars

-----------------------------------------------------------------------------
(* SpecToolCalls: streams of tool calls whose argument fragments may be    *)
(* blank, closed by MessageEnd events with different usage, consumed by    *)
(* from_stream.                                                            *)

FragmentChunks == {<<"{">>, <<"}">>, <<" ">>}

UsageMessageEnds == {MessageEnd(1, 2, Some("ToolUse")), MessageEnd(3, 4, None)}

YieldFragment == \E d \in FragmentChunks : YieldEvent(ToolCallDelta(d))

YieldUsageMessageEnd == \E e \in UsageMessageEnds : YieldEvent(e)

NextToolCalls ==
    \/ YieldMessageStart
    \/ YieldMessageDelta
    \/ YieldToolCallStart
    \/ YieldFragment
    \/ YieldUsageMessageEnd
    \/ StreamEnd

SpecToolCalls == InitCore /\ [][NextToolCalls]_vars

-----------------------------------------------------------------------------
(* SpecChunk: process_chunk applied to one chunk, the adapter in any of    *)
(* the states earlier chunks can leave it in.                              *)

\* What earlier chunks leave in the adapter: any finish_reason or none, a
\* role or none.
OpenAiAdapterStates ==
    {[stop_reason |-> stop_reason, message_started |-> message_started] :
        stop_reason \in {None, Some("EndTurn"), Some("ToolUse")},
        message_started \in BOOLEAN}

AllChunkUsages == {None, Some(ChatUsage(11, 22)), Some(ChatUsage(5, 7))}

\* Every chunk the adapter may be handed.
AllChunks ==
    {ChatCompletionChunk(m, <<ChunkChoice(ChunkDelta(role, content, tool_calls),
                                          finish_reason)>>, usage) :
        m \in Models, role \in ChunkRoles, content \in ChunkContents,
        tool_calls \in ChunkToolCallLists, finish_reason \in FinishReasons,
        usage \in AllChunkUsages}
    \cup {ChatCompletionChunk(m, << >>, usage) : m \in Models, usage \in AllChunkUsages}

InitChunk ==
    /\ provider = "openai"
    /\ anthropic = AnthropicStreamAdapter_new
    /\ openai \in OpenAiAdapterStates
    /\ emitted = << >>
    /\ wire \in {[chunk |-> chunk, received |-> FALSE] : chunk \in AllChunks}
    /\ http = [result |-> Pending]
    /\ sse = [frames |-> 0]
    /\ outbound = [result |-> Pending]
    /\ registry = [calls |-> << >>]
    /\ CoreAtRest

\* output.extend(adapter.process_chunk(chunk))
ProcessChunk ==
    /\ ~wire.received
    /\ openai' = process_chunk(openai, wire.chunk).self
    /\ emitted' = emitted \o process_chunk(openai, wire.chunk).events
    /\ wire' = [wire EXCEPT !.received = TRUE]
    /\ UNCHANGED <<provider, anthropic, core_vars, feed, http, sse, outbound, registry>>

NextChunk == ProcessChunk

SpecChunk == InitChunk /\ [][NextChunk]_vars

-----------------------------------------------------------------------------
(* SpecToolChunks: the adapter is fed up to MaxFrames chunks of one        *)
(* response whose deltas carry tool_calls lists of one or two entries, or  *)
(* text; wire keeps the chunks received.                                   *)

ToolCallEntries ==
    {ChunkToolCall(Some("call_1"), Some(ChunkFunctionCall(Some("weather"), Some(<<"{">>)))),
     ChunkToolCall(None, Some(ChunkFunctionCall(None, Some(<<"}">>)))),
     ChunkToolCall(Some("call_2"), Some(ChunkFunctionCall(Some("clock"), Some(<< >>)))),
     ChunkToolCall(Some("call_2"), Some(ChunkFunctionCall(None, None))),
     ChunkToolCall(Some("call_1"), None)}

ArgumentsGiven(tc) == tc.function # None /\ tc.function[1].arguments # None

ToolCallEntryLists ==
    {<<tc>> : tc \in ToolCallEntries}
    \cup {<<first, second>> :
             first \in {tc \in ToolCallEntries : ArgumentsGiven(tc) /\ tc.function[1].arguments[1] # << >>},
             second \in {tc \in ToolCallEntries : ArgumentsGiven(tc)}}

ToolChunks ==
    {ChatCompletionChunk("m1", <<ChunkChoice(ChunkDelta(None, None, Some(tool_calls)), None)>>,
                         None) : tool_calls \in ToolCallEntryLists}
    \cup {ChatCompletionChunk("m1", <<ChunkChoice(ChunkDelta(Some("assistant"), Some(<<"a">>),
                                                             None), None)>>, None)}

InitToolChunks ==
    /\ provider = "openai"
    /\ anthropic = AnthropicStreamAdapter_new
    /\ openai = OpenAiStreamAdapter_new
    /\ emitted = << >>
    /\ wire = [received |-> << >>]
    /\ http = [result |-> Pending]
    /\ sse = [frames |-> 0]
    /\ outbound = [result |-> Pending]
    /\ registry = [calls |-> << >>]
    /\ CoreAtRest

\* output.extend(adapter.process_chunk(chunk))
ReceiveToolChunk ==
    /\ Len(wire.received) < MaxFrames
    /\ \E chunk \in ToolChunks :
          /\ openai' = process_chunk(openai, chunk).self
          /\ emitted' = emitted \o process_chunk(openai, chunk).events
          /\ wire' = [received |-> Append(wire.received, chunk)]
    /\ UNCHANGED <<provider, anthropic, core_vars, feed, http, sse, outbound, registry>>

NextToolChunks == ReceiveToolChunk

SpecToolChunks == InitToolChunks /\ [][NextToolChunks]_vars

-----------------------------------------------------------------------------
(* Claims about the adapters, under SpecAdapters.                          *)

\* The neutral events emitted so far, and their types.
EmittedEvents == EventsOf(emitted)
EmittedTypes == [i \in 1..Len(EmittedEvents) |-> EmittedEvents[i].type]

\* The violations validate_event reports (finish reports the other two).
PerEventViolations ==
    {"MessageNotStarted", "DuplicateMessageStart", "ToolCallDeltaBeforeStart",
     "MessageEndBeforeStart", "EventAfterMessageEnd"}

\* The validator's per-event check rejects one of the events.
PerEventRejected(events) == validate_event_sequence(events) \in PerEventViolations

NumberOf(type, events) ==
    Cardinality({i \in 1..Len(events) : events[i].type = type})

\* Accepted as a whole, MessageStart first, one MessageEnd and it is last.
CompleteMessage(events) ==
    /\ validate_event_sequence(events) = Accepted
    /\ events # << >>
    /\ events[1].type = "MessageStart"
    /\ events[Len(events)].type = "MessageEnd"
    /\ NumberOf("MessageEnd", events) = 1

\* C1 as stated: whatever frames an adapter is fed, the validator's per-event
\* check rejects none of the events it emits.
C1_Original == ~PerEventRejected(EmittedEvents)

\* C1, amended: when the frames that carry events come in the protocol's
\* order (the message is opened first and once, tool-argument fragments
\* follow a frame that opens a tool call, nothing that carries an event
\* follows the frame that ends the message), the validator's per-event
\* check rejects none of the emitted events; a repeated assistant role is
\* the one deviation the adapters absorb.
C1_OrderedFramesYieldOrderedEvents ==
    wire.in_order => ~PerEventRejected(EmittedEvents)

C1_Witness ==
    /\ provider = "openai"
    /\ wire.in_order
    /\ ~wire.well_formed
    /\ Len(EmittedEvents) >= 3
    /\ EmittedEvents[Len(EmittedEvents)].type = "MessageEnd"

\* C2: after a well-formed Messages wire sequence (message_start, content
\* block frames with every input_json_delta after a tool_use block start,
\* message_delta, message_stop, pings anywhere) the events the Anthropic
\* adapter emitted are accepted by validate_event_sequence, begin with
\* MessageStart and end with the only MessageEnd.
C2_AnthropicWellFormedAccepted ==
    (provider = "anthropic" /\ wire.well_formed /\ wire.closed)
        => CompleteMessage(EmittedEvents)

C2_Witness ==
    /\ provider = "anthropic"
    /\ wire.well_formed
    /\ wire.closed
    /\ EmittedTypes = <<"MessageStart", "ToolCallStart", "ToolCallDelta", "MessageEnd">>

\* C3: after a well-formed Chat Completions chunk sequence (role on the
\* first chunk, content and tool_calls entries whose first fragment has id
\* and name, one finish_reason, usage on the last chunk only, which has no
\* choices) the events the OpenAI adapter emitted are accepted by
\* validate_event_sequence, begin with MessageStart and end with the only
\* MessageEnd.
C3_OpenAiWellFormedAccepted ==
    (provider = "openai" /\ wire.well_formed /\ wire.ended)
        => CompleteMessage(EmittedEvents)

C3_Witness ==
    /\ provider = "openai"
    /\ wire.well_formed
    /\ wire.ended
    /\ wire.finishes = 1
    /\ EmittedTypes = <<"MessageStart", "ToolCallStart", "ToolCallDelta", "MessageEnd">>

-----------------------------------------------------------------------------
(* Claims about the validator and the assembler, under SpecCore.           *)

Events == EventsOf(stream)
Violation(v) == Err(StreamInvariantViolation(v))

\* Among the first n events, one of this type was accepted by the validator.
AcceptedBefore(type, n) ==
    \E j \in 1..n : Events[j].type = type /\ verdicts[j] = Accepted

\* This step yields an Ok event; the event; the validator's verdict on it.
EventYielded == Len(verdicts') = Len(verdicts) + 1
NewEvent == stream'[Len(stream')].value
NewVerdict == verdicts'[Len(verdicts')]

\* One MessageStart, then any mix of MessageDelta, ThinkingDelta and tool
\* calls (a ToolCallStart followed by its ToolCallDeltas), then one MessageEnd.
IsValidSequence(ev) ==
    /\ Len(ev) >= 2
    /\ ev[1].type = "MessageStart"
    /\ ev[Len(ev)].type = "MessageEnd"
    /\ \A i \in 2..(Len(ev) - 1) :
          \/ ev[i].type \in {"MessageDelta", "ThinkingDelta", "ToolCallStart"}
          \/ ev[i].type = "ToolCallDelta"
             /\ ev[i - 1].type \in {"ToolCallStart", "ToolCallDelta"}

\* C4: every valid event sequence (MessageStart, a mix of text and thinking
\* deltas and of tool calls with their deltas, MessageEnd) is accepted by
\* validate_event_sequence, and by the validator fed one event at a time.
C4_ValidSequenceAccepted ==
    IsValidSequence(Events) =>
        /\ validate_event_sequence(Events) = Accepted
        /\ \A i \in 1..Len(verdicts) : verdicts[i] = Accepted
        /\ finish(validator) = Accepted

C4_Witness ==
    /\ stream_ended
    /\ IsValidSequence(Events)
    /\ \E i \in 1..Len(Events) : Events[i].type = "ToolCallDelta"
    /\ \E i \in 1..Len(Events) : Events[i].type \in {"MessageDelta", "ThinkingDelta"}

\* Event i is a ToolCallDelta put into a started message before any
\* ToolCallStart: a MessageStart, then only text and thinking deltas, then it.
ToolDeltaBeforeAnyStart(ev, i) ==
    /\ i >= 2
    /\ ev[i].type = "ToolCallDelta"
    /\ ev[1].type = "MessageStart"
    /\ \A j \in 2..(i - 1) : ev[j].type \in {"MessageDelta", "ThinkingDelta"}

C6_NothingAfterMessageEnd ==
    [][(EventYielded /\ AcceptedBefore("MessageEnd", Len(verdicts))) =>
          /\ NewVerdict = "EventAfterMessageEnd"
          /\ validate_event_sequence(EventsOf(stream')) # Accepted
          /\ (asm_result = Pending =>
                 asm_result' = Violation("EventAfterMessageEnd"))]_vars

C6_Witness ==
    /\ asm_result = Violation("EventAfterMessageEnd")
    /\ \E i \in 1..Len(verdicts) :
          /\ verdicts[i] = "EventAfterMessageEnd"
          /\ Events[i].type = "MessageEnd"
    /\ \E i \in 1..Len(verdicts) :
          /\ verdicts[i] = "EventAfterMessageEnd"
          /\ Events[i].type = "MessageStart"

\* C7: a MessageStart that arrives after a MessageStart was accepted, and
\* before a MessageEnd, is rejected with DuplicateMessageStart: by the
\* validator, by validate_event_sequence when everything before it was
\* accepted, and by from_stream.
C7_DuplicateMessageStartRejected ==
    [][(/\ EventYielded
        /\ NewEvent.type = "MessageStart"
        /\ AcceptedBefore("MessageStart", Len(verdicts))
        /\ ~AcceptedBefore("MessageEnd", Len(verdicts))) =>
          /\ NewVerdict = "DuplicateMessageStart"
          /\ ((\A i \in 1..Len(verdicts) : verdicts[i] = Accepted) =>
                 validate_event_sequence(EventsOf(stream')) = "DuplicateMessageStart")
          /\ (asm_result = Pending =>
                 asm_result' = Violation("DuplicateMessageStart"))]_vars

C7_Witness ==
    /\ asm_result = Violation("DuplicateMessageStart")
    /\ validate_event_sequence(Events) = "DuplicateMessageStart"
    /\ Len(Events) >= 3

\* What an event other than MessageStart gets before any MessageStart.
BeforeStartViolation(event) ==
    IF event.type = "MessageEnd" THEN "MessageEndBeforeStart"
    ELSE "MessageNotStarted"

\* C8: before a MessageStart was accepted, every other event is rejected:
\* MessageEnd with MessageEndBeforeStart, the four delta and tool events with
\* MessageNotStarted; from_stream returns the same violation.
C8_EventBeforeStartRejected ==
    [][(/\ EventYielded
        /\ NewEvent.type # "MessageStart"
        /\ ~AcceptedBefore("MessageStart", Len(verdicts))) =>
          /\ NewVerdict = BeforeStartViolation(NewEvent)
          /\ validate_event_sequence(EventsOf(stream')) = BeforeStartViolation(Events'[1])
          /\ (asm_result = Pending =>
                 asm_result' = Violation(BeforeStartViolation(NewEvent)))]_vars

C8_Witness ==
    /\ Len(Events) >= 2
    /\ Events[1].type = "ToolCallDelta"
    /\ Events[2].type = "MessageEnd"
    /\ verdicts[1] = "MessageNotStarted"
    /\ verdicts[2] = "MessageEndBeforeStart"
    /\ asm_result = Violation("MessageNotStarted")

\* What the final check owes a stream whose accepted events are these.
FinalViolation ==
    IF ~AcceptedBefore("MessageStart", Len(verdicts)) THEN "MissingMessageStart"
    ELSE IF ~AcceptedBefore("MessageEnd", Len(verdicts)) THEN "MissingMessageEnd"
    ELSE Accepted

\* C9: at stream end the final check fails with MissingMessageStart if no
\* MessageStart was ever accepted (the empty stream included) and with
\* MissingMessageEnd if one was but no MessageEnd; from_stream, when it reads
\* the stream to its end, returns that violation and no result.
C9_FinalCheck ==
    [][(stream_ended' /\ ~stream_ended) =>
          /\ finish(validator) = FinalViolation
          /\ ((\A i \in 1..Len(verdicts) : verdicts[i] = Accepted) =>
                 validate_event_sequence(Events) = FinalViolation)
          /\ ((asm_result = Pending /\ FinalViolation # Accepted) =>
                 asm_result' = Violation(FinalViolation))]_vars

C9_Witness ==
    /\ stream_ended
    /\ asm_result = Violation("MissingMessageEnd")
    /\ Len(Events) >= 3
    /\ \E i \in 1..Len(Events) : Events[i].type = "ToolCallStart"

\* C10: from_stream returns Ok only for event sequences that
\* validate_event_sequence accepts; for a stream the validator rejects,
\* from_stream has returned an error by the time the stream has ended.
C10_ViolationsSurfaced ==
    /\ asm_result.tag = "Ok" => validate_event_sequence(Events) = Accepted
    /\ (stream_ended /\ validate_event_sequence(Events) # Accepted) =>
          asm_result.tag = "Err"

C10_Witness ==
    /\ stream_ended
    /\ asm_result.tag = "Ok"
    /\ Len(asm_result.value.content) >= 1

-----------------------------------------------------------------------------
(* Claims about what from_stream assembles, under SpecCore and SpecPayload. *)

\* This step yields an error item.
ErrorYielded ==
    /\ Len(stream') = Len(stream) + 1
    /\ stream'[Len(stream')].tag = "Err"

\* C11: when the stream yields an error item while from_stream is still
\* running, from_stream returns that very error (its kind and its message),
\* not a result, whatever came before; and what it returned stays.
C11_StreamErrorSurfaced ==
    [][/\ (ErrorYielded /\ asm_result = Pending)
            => asm_result' = Err(stream'[Len(stream')].error)
       /\ asm_result # Pending => asm_result' = asm_result]_vars

C11_Witness ==
    /\ Len(stream) >= 3
    /\ stream[1] = Ok(MessageStart("m1", "test"))
    /\ stream[2].tag = "Ok"
    /\ stream[3] = Err(StreamError("reset"))
    /\ asm_result = Err(StreamError("reset"))

\* What from_stream returned, when it returned a result.
Returned == asm_result.tag = "Ok"
Content == asm_result.value.content

\* C12: a JSON object S, its serialization cut into chunks at any places
\* and delivered as MessageStart, ToolCallStart, one ToolCallDelta per
\* chunk, MessageEnd, comes back as exactly one ToolUse part whose input
\* is S.
C12_ToolJsonReassembled ==
    (feed.kind = "tool" /\ feed.phase = "done")
        => /\ Returned
           /\ Content = <<ToolUse("call_1", "weather", feed.value)>>

C12_Witness ==
    /\ feed.kind = "tool"
    /\ feed.phase = "done"
    /\ Returned
    /\ DOMAIN feed.value.v = {<<"k">>, <<"k", "k">>}
    /\ Len(stream) = 7

\* C13: a non-empty text T, cut into chunks at any places and delivered as
\* the MessageDelta events of one message, comes back as exactly one Text
\* part that holds T.
C13_TextReassembled ==
    (feed.kind = "text" /\ feed.phase = "done")
        => /\ Returned
           /\ Content = <<Text(feed.payload)>>

C13_Witness ==
    /\ feed.kind = "text"
    /\ feed.phase = "done"
    /\ Returned
    /\ Len(feed.payload) = 5
    /\ Len(stream) = 5

\* The (id, name) of the ToolUse parts, and of the ToolCallStart events.
IdAndName(x) == [id |-> x.id, name |-> x.name]
ToolUseParts(content) == SelectSeq(content, LAMBDA part : part.type = "ToolUse")
ToolCallStarts(events) == SelectSeq(events, LAMBDA e : e.type = "ToolCallStart")

\* C14: in a result from_stream returns, no two neighbouring parts are both
\* Text or both Thinking, and the ToolUse parts are the tool calls started,
\* in the order of their ToolCallStart events.
C14_PartsCoalescedToolsInOrder ==
    Returned =>
        /\ \A i \in 1..(Len(Content) - 1) :
              ~(Content[i].type = Content[i + 1].type
                  /\ Content[i].type \in {"Text", "Thinking"})
        /\ [i \in 1..Len(ToolUseParts(Content)) |-> IdAndName(ToolUseParts(Content)[i])]
             = [i \in 1..Len(ToolCallStarts(Events)) |-> IdAndName(ToolCallStarts(Events)[i])]

C14_Witness ==
    /\ Returned
    /\ Len(Content) = 3
    /\ Content[1] = Text(<<"a">>)
    /\ Content[2].type = "ToolUse" /\ Content[2].id = "call_2"
    /\ Content[3].type = "ToolUse" /\ Content[3].id = "call_1"

\* The kind of part an event opens or goes on with.
PartKind(event) ==
    CASE event.type = "MessageDelta" -> "Text"
      [] event.type = "ThinkingDelta" -> "Thinking"
      [] event.type = "ToolCallStart" -> "ToolUse"
      [] OTHER -> "none"

\* The kinds of the parts in emission order, from event i on: each part
\* stands where its first event was emitted; last is the kind of the part
\* being built.
RECURSIVE EmissionOrder(_, _, _)
EmissionOrder(events, i, last) ==
    IF i > Len(events) THEN << >>
    ELSE IF PartKind(events[i]) = "none" THEN EmissionOrder(events, i + 1, last)
    ELSE IF PartKind(events[i]) = last /\ last # "ToolUse"
    THEN EmissionOrder(events, i + 1, last)
    ELSE <<PartKind(events[i])>> \o EmissionOrder(events, i + 1, PartKind(events[i]))

\* C15 as stated: the parts of the result stand in emission order across
\* the three kinds, also when text or thinking deltas come between a
\* ToolCallStart and the event that finalizes that call.
C15_EmissionOrder ==
    Returned =>
        [i \in 1..Len(Content) |-> Content[i].type] = EmissionOrder(Events, 1, "none")

-----------------------------------------------------------------------------
(* Claims about the transport, under SpecTransport.                        *)

Failed == http.result.tag = "Err"

\* The call was aborted for the total timeout budget.
BudgetExceeded ==
    /\ Failed
    /\ http.result.error.kind = "ApiError"
    /\ http.result.error.detail[1] # "API request failed (status {}): {}"

\* The last send returned a success status.
Succeeded ==
    /\ http.last # None
    /\ http.last[1].class = "response"
    /\ is_success(http.last[1].status)

\* Every send so far failed, each with a failure the policy retries.
OnlyTransientFailures == http.transient_only /\ ~Succeeded

\* The call failed with the ApiError made of this status and this body.
FailedWithStatus(status, text) ==
    /\ Failed
    /\ http.result.error.kind = "ApiError"
    /\ http.result.error.detail[1] = "API request failed (status {}): {}"
    /\ http.result.error.detail[2] = status
    /\ http.result.error.detail[3] = text

\* The call failed with the NetworkError that holds this reqwest::Error.
FailedWithNetworkError(e) ==
    /\ Failed
    /\ http.result.error.kind = "NetworkError"
    /\ http.result.error.detail = e

\* C16 as stated, max_retries being the clamped one: the call does not fail
\* on its first max_retries transient failures, and a success is returned.
C16_Original ==
    /\ (Failed /\ OnlyTransientFailures) => http.attempts > http.max_retries
    /\ Succeeded => http.result = Ok(http.last[1])

\* C16, amended: the call does not fail on its first max_retries (after
\* clamping) transient failures unless the total timeout budget aborts
\* it, and a success status is returned as the call's result.
C16_RetriesUntilSuccess ==
    /\ (Failed /\ OnlyTransientFailures /\ ~BudgetExceeded)
          => http.attempts > http.max_retries
    /\ Succeeded => http.result = Ok(http.last[1])

C16_Witness ==
    /\ Succeeded
    /\ http.result.tag = "Ok"
    /\ http.max_retries = 2
    /\ http.retries = 2
    /\ http.sleeps = 2
    /\ http.attempts = 3

\* This turn of the loop ends in a sleep, and one was slept before.
SleptAgain == http.wait # None /\ http'.sleeps = http.sleeps + 1

\* C17 as stated: each wait is at least the wait before it, and at most
\* max_delay.
C17_Original ==
    [][SleptAgain => /\ http'.wait[1].ms >= http.wait[1].ms
                     /\ http'.wait[1].ms <= http.retry_policy.max_delay]_vars

\* C17, amended: every wait is at most max_delay; a computed backoff is at
\* least the computed backoff before it when jitter is at most base_delay.
\* (A wait taken from Retry-After, or a jitter above base_delay, can make a
\* wait shorter than the one before.)
C17_BackoffNonDecreasing ==
    [][SleptAgain =>
         /\ http'.wait[1].ms <= http.retry_policy.max_delay
         /\ (/\ ~http.wait[1].from_retry_after
             /\ ~http'.wait[1].from_retry_after
             /\ http.retry_policy.jitter <= http.retry_policy.base_delay)
               => http'.wait[1].ms >= http.wait[1].ms]_vars

C17_Witness ==
    /\ http.sleeps >= 4
    /\ http.retry_policy.jitter > 0
    /\ http.retry_policy.jitter <= http.retry_policy.base_delay
    /\ ~http.wait[1].from_retry_after
    /\ http.wait[1].ms = http.retry_policy.max_delay

\* The body text of the last response ("" when it cannot be read).
LastText == IF http.last[1].text = None THEN "" ELSE http.last[1].text[1]

\* When every send failed with a retryable failure of one class, the call
\* made max_retries + 1 sends and failed with the last failure.
ExhaustedWithLast ==
    /\ http.classes = {"response"}
          => /\ http.attempts = http.max_retries + 1
             /\ FailedWithStatus(http.last[1].status, LastText)
    /\ http.classes = {"network"}
          => /\ http.attempts = http.max_retries + 1
             /\ FailedWithNetworkError(http.last[1])

\* C18 as stated: if every send returned a retryable status, the failed call
\* made max_retries + 1 sends (max_retries clamped) and its error is the
\* ApiError of the last status and body; if every send failed with a
\* retryable network error, it is the NetworkError of the last one.
C18_Original == (Failed /\ OnlyTransientFailures) => ExhaustedWithLast

\* C18, amended: the same, unless the total timeout budget aborted the call
\* (then the error is an ApiError that names the budget); the body text is
\* empty when the body cannot be read.
C18_ExhaustedRetries ==
    (Failed /\ OnlyTransientFailures /\ ~BudgetExceeded) => ExhaustedWithLast

C18_Witness ==
    /\ http.classes = {"response"}
    /\ OnlyTransientFailures
    /\ http.max_retries = 2
    /\ http.attempts = 3
    /\ FailedWithStatus(500, "overloaded")

\* This turn of the loop sent the request and got a failure that the policy
\* does not retry.
NotRetryable ==
    /\ http'.attempts = http.attempts + 1
    /\ ~(http'.last[1].class = "response" /\ is_success(http'.last[1].status))
    /\ ~Transient(http, http'.last[1])

\* C19: a failure status that matches no retryable-status rule, or a network
\* error that matches no retryable-network rule, ends the call with its
\* error in that very turn: no sleep, and no send after it.
C19_OnlyRetriableClassesRetried ==
    [][/\ NotRetryable
          => /\ http'.sleeps = http.sleeps
             /\ http'.retries = http.retries
             /\ http'.result.tag = "Err"
             /\ http'.result.error.kind
                  = (IF http'.last[1].class = "response" THEN "ApiError"
                     ELSE "NetworkError")
       /\ http.result # Pending => http' = http]_vars

C19_Witness ==
    /\ FailedWithStatus(400, "bad request")
    /\ http.attempts = 2
    /\ http.sleeps = 1
    /\ http.retries < http.max_retries

\* C20: whatever max_retries the client policy, the per-call policy or the
\* per-call max_retries asks for, one call makes at most 10 retries and at
\* most 11 sends.
C20_RetriesCapped ==
    /\ http.max_retries <= 10
    /\ http.retries <= 10
    /\ http.sleeps <= 10
    /\ http.attempts <= 11

C20_Witness ==
    /\ http.attempts = 11
    /\ http.retries = 10
    /\ Failed
    /\ http.retry_policy.base_delay = 2

\* This turn of the loop ends in a sleep.
Slept == http'.sleeps = http.sleeps + 1

\* The jitters the claims allow: below the policy's jitter (0 when it is 0).
JitterRange(retry_policy) ==
    IF retry_policy.jitter = 0 THEN {0} ELSE 0..(retry_policy.jitter - 1)

\* min(base_delay * 2^(attempt-1), max_delay) + j, as the claims write it.
BackoffPlusJitter(attempt, retry_policy, j) ==
    Min(retry_policy.base_delay * 2 ^ (attempt - 1), retry_policy.max_delay) + j

\* The Retry-After header of the response the sleep follows, and its seconds
\* when its value, trimmed, is an unsigned decimal integer.
RetryAfterHeader == http'.last[1].retry_after
RetryAfterSeconds ==
    IF RetryAfterHeader = None THEN None ELSE parse_u64(trim(RetryAfterHeader[1]))

\* C21: the wait slept after a retryable status whose Retry-After header
\* holds an integer s is min(s seconds, max_delay), whatever the computed
\* backoff; with no header, or one that is not an integer, it is the computed
\* backoff of this retry for some jitter.
C21_RetryAfterReplacesBackoff ==
    [][(Slept /\ http'.last[1].class = "response") =>
         IF RetryAfterSeconds # None
         THEN /\ http'.wait[1].from_retry_after
              /\ http'.wait[1].ms
                   = Min(RetryAfterSeconds[1] * 1000, http.retry_policy.max_delay)
         ELSE /\ ~http'.wait[1].from_retry_after
              /\ \E j \in JitterRange(http.retry_policy) :
                    http'.wait[1].ms
                      = BackoffPlusJitter(http'.retries, http.retry_policy, j)]_vars

\* Retry-After: 0 was slept (no wait) where the computed backoff is at least
\* 2, and a header that is not an integer left the computed backoff.
C21_Witness ==
    /\ http.sleeps = 2
    /\ http.result = Pending
    /\ http.retry_policy.base_delay = 2
    /\ http.last[1].class = "response"
    /\ http.last[1].retry_after = Some(<<"0">>)
    /\ http.wait = Some([ms |-> 0, from_retry_after |-> TRUE])
    /\ http.elapsed = 2

\* This turn of the loop ends in a sleep whose wait is no Retry-After hint.
SleptBackoff == Slept /\ ~http'.wait[1].from_retry_after

\* C22: the wait slept before retry number attempt, when it is no
\* Retry-After hint, is min(base_delay * 2^(attempt-1), max_delay) + j for a
\* jitter j below the policy's jitter.  (retry_delay holds the sum at
\* max_delay, which is the sum for a smaller j.)
C22_BackoffWithJitter ==
    [][SleptBackoff =>
         \E j \in JitterRange(http.retry_policy) :
            http'.wait[1].ms
              = BackoffPlusJitter(http'.retries, http.retry_policy, j)]_vars

\* The wait before retry 2 with base_delay 2 and jitter 1: 2 * 2 + 1.
C22_Witness ==
    /\ http.retries = 2
    /\ http.sleeps = 2
    /\ http.retry_policy.base_delay = 2
    /\ http.retry_policy.jitter = 2
    /\ http.wait = Some([ms |-> 5, from_retry_after |-> FALSE])

\* This turn of the loop found a retry due, a total deadline being set.
RetryDueUnderDeadline ==
    /\ http'.retries = http.retries + 1
    /\ http.timeout_policy.total_timeout # None

\* The call was aborted because this wait would pass the total deadline.
AbortedBeforeSleep(h) ==
    /\ h.timeout_policy.total_timeout # None
    /\ h.result.tag = "Err"
    /\ h.result.error.kind = "ApiError"
    /\ h.result.error.detail[1] # "API request failed (status {}): {}"
    /\ Len(h.result.error.detail) = 3
    /\ h.result.error
         = ApiWaitExceedsBudget(h.result.error.detail[2], h.timeout_policy.total_timeout[1])

\* C23: with a total deadline set, a due retry either sleeps, and then wakes
\* within the deadline, or, when elapsed + wait passes the deadline, ends
\* the call with an error in that very turn, without sleeping; nothing
\* happens after the call has returned.
C23_DeadlineCheckedBeforeSleep ==
    [][/\ RetryDueUnderDeadline =>
            IF http'.result = Pending
            THEN /\ Slept
                 /\ http'.elapsed <= http.timeout_policy.total_timeout[1]
            ELSE /\ AbortedBeforeSleep(http')
                 /\ http'.elapsed + http'.result.error.detail[2]
                      > http.timeout_policy.total_timeout[1]
                 /\ http'.sleeps = http.sleeps
                 /\ http'.attempts = http.attempts + 1
       /\ http.result # Pending => http' = http]_vars

\* The second retry was due at 4 ms of a deadline of 5 ms, after one sleep.
C23_Witness ==
    /\ AbortedBeforeSleep(http)
    /\ http.timeout_policy.total_timeout = Some(5)
    /\ http.elapsed = 4
    /\ http.sleeps = 1
    /\ http.retries = 2
    /\ http.attempts = 2

\* C24: with a total deadline set, the time spent on the sends and the
\* sleeps of one call never passes the deadline, each send taking any time
\* the per-request timeout allows.
C24_TotalDeadlineBoundsCall ==
    http.timeout_policy.total_timeout # None
        => http.elapsed <= http.timeout_policy.total_timeout[1]

-----------------------------------------------------------------------------
(* Claims about what the adapters emit, under SpecAdapters and             *)
(* SpecMessageEnd.                                                         *)

\* The items the adapter returned in this step.
JustEmitted == SubSeq(emitted', Len(emitted) + 1, Len(emitted'))

\* C25: over any sequence of chunks OpenAiStreamAdapter emits at most one
\* MessageStart: the first chunk with the assistant role emits it, first of
\* that chunk's events, and no chunk after it emits one, whether it repeats
\* the role or not.
C25_SingleMessageStart ==
    [][provider = "openai" =>
         /\ NumberOf("MessageStart", EventsOf(emitted')) <= 1
         /\ wire.roles > 0 => NumberOf("MessageStart", EventsOf(JustEmitted)) = 0
         /\ (wire.roles = 0 /\ wire'.roles = 1)
               => /\ JustEmitted # << >>
                  /\ JustEmitted[1] = Ok(MessageStart("m1", "openai"))
                  /\ NumberOf("MessageStart", EventsOf(JustEmitted)) = 1]_vars

\* The role came on more than one chunk, with text after the second.
C25_Witness ==
    /\ provider = "openai"
    /\ wire.roles = 2
    /\ Len(emitted) = 3
    /\ EventsOf(emitted)[1].type = "MessageStart"
    /\ EventsOf(emitted)[2].type = "MessageDelta"
    /\ EventsOf(emitted)[3].type = "MessageDelta"

\* The mapping of finish_reason that C26 states.
FinishReasonMapped(finish_reason) ==
    IF finish_reason = "stop" THEN "EndTurn"
    ELSE IF finish_reason = "length" THEN "MaxTokens"
    ELSE IF finish_reason = "tool_calls" THEN "ToolUse"
    ELSE "Unknown"

\* The stop reason of the last finish_reason the chunks so far carried.
StopReasonSeen ==
    IF wire.finish_reason = None THEN None
    ELSE Some(FinishReasonMapped(wire.finish_reason[1]))

\* C26: the chunk with no choices and the usage emits one MessageEnd, with
\* the usage's token counts and the stop reason mapped from the finish_reason
\* of the chunks before it (none if none came), and leaves the adapter's
\* stop reason as it was.
C26_UsageChunkCarriesStopReason ==
    [][\A m \in Models, usage \in ChunkUsages \ {None} :
          OpenAiFeed(ChatCompletionChunk(m, << >>, usage))
            => /\ JustEmitted
                    = <<Ok(MessageEnd(usage[1].prompt_tokens,
                                      usage[1].completion_tokens, StopReasonSeen))>>
               /\ openai'.stop_reason = openai.stop_reason
               /\ wire'.finish_reason = wire.finish_reason]_vars

\* Role and text, then finish_reason "length", then the usage chunk.
C26_Witness ==
    /\ provider = "openai"
    /\ wire.well_formed
    /\ wire.ended
    /\ wire.finish_reason = Some("length")
    /\ emitted = <<Ok(MessageStart("m1", "openai")), Ok(MessageDelta(<<"a">>)),
                   Ok(MessageEnd(11, 22, Some("MaxTokens")))>>

\* The mapping of delta.stop_reason that the spec states.
WireStopReasonMapped(stop_reason) ==
    IF stop_reason = None THEN None
    ELSE IF stop_reason[1] = "end_turn" THEN Some("EndTurn")
    ELSE IF stop_reason[1] = "max_tokens" THEN Some("MaxTokens")
    ELSE IF stop_reason[1] = "tool_use" THEN Some("ToolUse")
    ELSE IF stop_reason[1] = "stop_sequence" THEN Some("StopSequence")
    ELSE Some("Unknown")

\* usage.input_tokens of the last message_start frame so far, 0 if none.
InputTokensSeen == IF wire.input_tokens = None THEN 0 ELSE wire.input_tokens[1]

\* C28: a step of AnthropicStreamAdapter that emits a MessageEnd is the
\* processing of a message_delta frame, and the MessageEnd, the only item
\* emitted, has the input_tokens of the last message_start before it (0 if
\* none), the frame's usage.output_tokens and the stop reason mapped from
\* the frame's delta.stop_reason.
C28_MessageEndCarriesUsage ==
    [][(provider = "anthropic" /\ NumberOf("MessageEnd", EventsOf(JustEmitted)) > 0)
          => \E r \in AllWireStopReasons, n \in OutputTokenCounts :
                /\ AnthropicFeed(WireMessageDelta(r, n))
                /\ JustEmitted
                     = <<Ok(MessageEnd(InputTokensSeen, n, WireStopReasonMapped(r)))>>]_vars

\* A message_delta before any message_start, one after a message_start with
\* 13 input tokens, and one after a second message_start with 17.
C28_Witness ==
    /\ provider = "anthropic"
    /\ Len(emitted) = 4
    /\ emitted[1] = Ok(MessageEnd(0, 21, None))
    /\ emitted[2].value.type = "MessageStart"
    /\ emitted[3] = Ok(MessageEnd(13, 21, Some("StopSequence")))
    /\ emitted[4].value.type = "MessageStart"
    /\ wire.input_tokens = Some(17)

-----------------------------------------------------------------------------
(* Claims about the Chat-Completions chunk stream, under SpecChatStream.   *)

\* C27: the data line [DONE] ends the chunk stream: the frame yields no
\* item, and no frame that arrives after it yields a chunk or an error.
C27_DoneEndsStream ==
    [][/\ (sse'.done /\ ~sse.done) => sse'.items = sse.items
       /\ sse.done => sse'.items = sse.items]_vars

-----------------------------------------------------------------------------
(* Claims about request normalization, under SpecOutbound.                 *)

\* The tool_result block the claim expects on the wire: is_error only when
\* the result is an error.
ExpectedToolResult(c) ==
    IF c.is_error
    THEN [type |-> "tool_result", tool_use_id |-> c.tool_use_id,
          content |-> c.content, is_error |-> JsonBool(TRUE)]
    ELSE [type |-> "tool_result", tool_use_id |-> c.tool_use_id,
          content |-> c.content]

ToolResultsOf(msg) == SelectSeq(msg.content, LAMBDA c : c.type = "ToolResult")

ExpectedToolMessage(msg) ==
    [role |-> "user",
     content |-> [i \in 1..Len(ToolResultsOf(msg)) |->
                     ExpectedToolResult(ToolResultsOf(msg)[i])]]

WireMessages == outbound.result.value.messages

\* C29: in the serialized wire request a tool_result block has no is_error
\* field unless the tool result is an error (then it is true), and every
\* Tool-role message with tool results is a user-role message of
\* tool_result blocks.
C29_FalseIsErrorOmitted ==
    outbound.result # Pending =>
        /\ \A i \in 1..Len(WireMessages) :
              \A j \in 1..Len(WireMessages[i].content) :
                 "is_error" \in DOMAIN WireMessages[i].content[j]
                    => WireMessages[i].content[j].is_error = JsonBool(TRUE)
        /\ \A i \in 1..Len(outbound.request.messages) :
              (/\ outbound.request.messages[i].role = "Tool"
               /\ ToolResultsOf(outbound.request.messages[i]) # << >>)
                 => \E k \in 1..Len(WireMessages) :
                       WireMessages[k] = ExpectedToolMessage(outbound.request.messages[i])

-----------------------------------------------------------------------------
(* Claims about the provider registry, under SpecRegistry.                 *)

\* A name with the whitespace at its ends removed and its ASCII letters in
\* lower case, written from the claim: the part between the first and the
\* last character that is not whitespace.
Inner(name) ==
    LET solid == {i \in 1..Len(name) : name[i] \notin {" ", "\t", "\n"}}
    IN IF solid = {} THEN << >>
       ELSE SubSeq(name, CHOOSE i \in solid : \A j \in solid : i <= j,
                         CHOOSE i \in solid : \A j \in solid : j <= i)

Folded(name) ==
    [i \in 1..Len(name) |->
        IF name[i] = "A" THEN "a" ELSE IF name[i] = "B" THEN "b" ELSE name[i]]

SameName(a, b) == Folded(Inner(a)) = Folded(Inner(b))

RegisteredUnder(d) ==
    {i \in 1..Len(registry.calls) : SameName(registry.calls[i].driver, d)}

RegisteredNames ==
    {Folded(Inner(registry.calls[i].driver)) : i \in 1..Len(registry.calls)}

\* names is RegisteredNames in ascending order, each name once.
SortedRegisteredNames(names) ==
    /\ {names[i] : i \in 1..Len(names)} = RegisteredNames
    /\ \A i \in 1..Len(names) : \A j \in 1..Len(names) :
          i < j => names[i] # names[j] /\ string_le(names[i], names[j])

\* C30: after any register calls, create(d, init) returns what the factory
\* of the latest register call under the same trimmed, lower-cased name
\* returns; with no such call it returns UnknownDriver with d as given and
\* the registered names sorted; drivers() is the registered names sorted,
\* each once.
C30_RegistryDispatch ==
    /\ registry.last.op = "create" =>
          LET d == registry.last.driver
              under == RegisteredUnder(d)
              latest == CHOOSE i \in under : \A j \in under : j <= i
          IN IF under # {}
             THEN registry.last.result
                     = Ok([built_by |-> registry.calls[latest].factory,
                           api_key |-> TestInit.api_key])
             ELSE /\ registry.last.result.tag = "Err"
                  /\ registry.last.result.error.kind = "UnknownDriver"
                  /\ registry.last.result.error.driver = d
                  /\ SortedRegisteredNames(registry.last.result.error.available)
    /\ registry.last.op = "drivers" => SortedRegisteredNames(registry.last.result)

\* Two register calls under different spellings of one name and different
\* factories, one under a name that sorts between, and a create under a
\* third spelling that gets the later factory.
C30_Witness ==
    /\ Len(registry.calls) = 3
    /\ registry.calls[1] = [driver |-> <<"a", "b">>, factory |-> "factory_1"]
    /\ registry.calls[2] = [driver |-> <<"B", "\t">>, factory |-> "factory_1"]
    /\ registry.calls[3] = [driver |-> <<"b">>, factory |-> "factory_2"]
    /\ registry.last.op = "create"
    /\ registry.last.driver = <<"B", "\t">>
    /\ registry.last.result.tag = "Ok"
    /\ registry.last.result.value.built_by = "factory_2"

-----------------------------------------------------------------------------
(* Claims about the tool calls from_stream assembles, under SpecCore.      *)

\* The index of the last ToolCallStart among events, 0 if there is none.
LastStart(events) ==
    LET starts == {i \in 1..Len(events) : events[i].type = "ToolCallStart"}
    IN IF starts = {} THEN 0 ELSE CHOOSE i \in starts : \A j \in starts : j <= i

\* The argument fragments from event i on, joined in order.
RECURSIVE FragmentsFrom(_, _)
FragmentsFrom(events, i) ==
    IF i > Len(events) THEN << >>
    ELSE (IF events[i].type = "ToolCallDelta" THEN events[i].delta ELSE << >>)
           \o FragmentsFrom(events, i + 1)

\* What the open tool call has received: the fragments since its start.
OpenBuffer(events) == FragmentsFrom(events, LastStart(events) + 1)

\* This step yields an event of this type that is accepted while from_stream
\* is still running.
AcceptedNow(type) ==
    /\ EventYielded
    /\ asm_result = Pending
    /\ NewEvent.type = type
    /\ NewVerdict = Accepted

\* C31: a ToolCallStart accepted while an earlier tool call is open first
\* closes that call as a ToolUse part with its own id and name and the
\* parse of the fragments it received, then opens the new call with an
\* empty buffer (when the fragments do not parse, from_stream returns the
\* parse error); the buffer always holds exactly the fragments that came
\* after the last ToolCallStart.
C31_RollingToolCallStart ==
    [][/\ (AcceptedNow("ToolCallStart") /\ LastStart(Events) > 0) =>
             LET previous == Events[LastStart(Events)]
                 parsed == parse_tool_input(OpenBuffer(Events))
             IN IF parsed.tag = "Ok"
                THEN /\ asm_result' = Pending
                     /\ asm'.content_parts =
                           Append(asm.content_parts,
                                  ToolUse(previous.id, previous.name, parsed.value))
                     /\ asm'.current_tool_id = Some(NewEvent.id)
                     /\ asm'.current_tool_name = Some(NewEvent.name)
                     /\ asm'.current_tool_json = << >>
                ELSE /\ asm_result' = parsed
                     /\ asm'.content_parts = asm.content_parts
       /\ (asm_result' = Pending /\ LastStart(EventsOf(stream')) > 0
             /\ ~asm'.event_validator.message_ended)
             => /\ asm'.current_tool_json = OpenBuffer(EventsOf(stream'))
                /\ asm'.current_tool_id
                     = Some(EventsOf(stream')[LastStart(EventsOf(stream'))].id)]_vars

\* call_1 gets {}, call_2 starts and gets {, then the message ends: call_1
\* is a ToolUse with input {} and the buffer of call_2 does not parse.
C31_Witness ==
    /\ Len(stream) = 5
    /\ stream[2] = Ok(ToolCallStart("call_1", "weather"))
    /\ stream[3] = Ok(ToolCallDelta(<<"{">>))
    /\ stream[4] = Ok(ToolCallDelta(<<"}">>))
    /\ stream[5] = Ok(ToolCallStart("call_2", "clock"))
    /\ asm_result = Pending
    /\ asm.content_parts = <<ToolUse("call_1", "weather", EmptyObject)>>
    /\ asm.current_tool_id = Some("call_2")
    /\ asm.current_tool_json = << >>

-----------------------------------------------------------------------------
(* Claims about how a tool call is closed, under SpecToolCalls.            *)

\* This step closes the tool call that is open: an accepted MessageEnd, or
\* an accepted ToolCallStart, after an earlier ToolCallStart.
ClosesOpenCall ==
    /\ AcceptedNow("MessageEnd") \/ AcceptedNow("ToolCallStart")
    /\ LastStart(Events) > 0

OpenCall == Events[LastStart(Events)]

\* The open call became a ToolUse part with this input.
ClosedWith(input) ==
    /\ asm_result' = Pending
    /\ asm'.content_parts = Append(asm.content_parts,
                                   ToolUse(OpenCall.id, OpenCall.name, input))

FailedToParse ==
    /\ asm_result'.tag = "Err"
    /\ asm_result'.error.kind = "SerializationError"

\* A stream that from_stream returned a result for holds one MessageEnd,
\* its last event: the result has that event's usage and stop_reason.
ResultCarriesMessageEnd ==
    Returned =>
        /\ asm_result.value.usage = Usage(Events[Len(Events)].input_tokens,
                                          Events[Len(Events)].output_tokens)
        /\ asm_result.value.stop_reason = Events[Len(Events)].stop_reason

\* C32 as stated: an empty buffer closes as input {}, and every non-empty
\* buffer that is not valid JSON makes from_stream fail.
C32_Original ==
    [][ClosesOpenCall =>
          /\ OpenBuffer(Events) = << >> => ClosedWith(EmptyObject)
          /\ (OpenBuffer(Events) # << >> /\ from_str(OpenBuffer(Events)).tag = "Err")
                => FailedToParse]_vars

\* C32: when a MessageEnd or a rolling ToolCallStart closes the open tool
\* call, a buffer that is empty or holds only whitespace gives a ToolUse
\* with input {}, a buffer with anything else that is not valid JSON makes
\* from_stream fail with a SerializationError and no result, and a valid
\* buffer gives a ToolUse with the parsed value; a result that is returned
\* has the usage and the stop_reason of the MessageEnd.
C32_ToolCallFinalized ==
    [][/\ ClosesOpenCall =>
             /\ IsBlank(OpenBuffer(Events)) => ClosedWith(EmptyObject)
             /\ (~IsBlank(OpenBuffer(Events)) /\ from_str(OpenBuffer(Events)).tag = "Err")
                   => FailedToParse
             /\ from_str(OpenBuffer(Events)).tag = "Ok"
                   => ClosedWith(from_str(OpenBuffer(Events)).value)
       /\ (AcceptedNow("MessageEnd") /\ asm_result' = Pending)
             => /\ asm'.usage = Usage(NewEvent.input_tokens, NewEvent.output_tokens)
                /\ asm'.stop_reason = NewEvent.stop_reason
       /\ ResultCarriesMessageEnd']_vars

\* A call with no fragment and a call with a blank fragment are closed with
\* input {}, one by a ToolCallStart and one by the MessageEnd, whose usage
\* the result has.
C32_Witness ==
    /\ Len(stream) = 5
    /\ stream[2] = Ok(ToolCallStart("call_1", "weather"))
    /\ stream[3] = Ok(ToolCallStart("call_2", "clock"))
    /\ stream[4] = Ok(ToolCallDelta(<<" ">>))
    /\ stream[5] = Ok(MessageEnd(3, 4, None))
    /\ Returned
    /\ Content = <<ToolUse("call_1", "weather", EmptyObject),
                   ToolUse("call_2", "clock", EmptyObject)>>
    /\ asm_result.value.usage = Usage(3, 4)
    /\ asm_result.value.stop_reason = None

-----------------------------------------------------------------------------
(* Claims about single chunks of the Chat-Completions adapter, under       *)
(* SpecChunk.                                                              *)

EmptyOrAbsent(option) == option = None \/ option[1] = << >>

\* The condition C33 gives for a chunk with choices to end the message.
MessageEndDue(chunk) ==
    /\ chunk.usage # None
    /\ EmptyOrAbsent(chunk.choices[1].delta.content)
    /\ EmptyOrAbsent(chunk.choices[1].delta.tool_calls)

IsMessageEndOf(item, usage) ==
    /\ item.tag = "Ok"
    /\ item.value.type = "MessageEnd"
    /\ item.value.input_tokens = usage.prompt_tokens
    /\ item.value.output_tokens = usage.completion_tokens

\* C33: a chunk with choices makes the adapter emit a MessageEnd exactly
\* when it has usage, no or empty content and no or empty tool_calls, and
\* then one, the last event of the chunk, with the chunk's usage; a chunk
\* without choices gives exactly one MessageEnd when it has usage and no
\* event otherwise.
C33_MessageEndFromUsage ==
    wire.received =>
        IF wire.chunk.choices = << >>
        THEN IF wire.chunk.usage # None
             THEN /\ Len(emitted) = 1
                  /\ IsMessageEndOf(emitted[1], wire.chunk.usage[1])
             ELSE emitted = << >>
        ELSE IF MessageEndDue(wire.chunk)
             THEN /\ NumberOf("MessageEnd", EventsOf(emitted)) = 1
                  /\ IsMessageEndOf(emitted[Len(emitted)], wire.chunk.usage[1])
             ELSE NumberOf("MessageEnd", EventsOf(emitted)) = 0

\* The chunk of the adapter's own test: a repeated role, an empty content,
\* a finish_reason and the usage on one chunk with a choice.
C33_Witness ==
    /\ wire.received
    /\ wire.chunk = ChatCompletionChunk(
                        "m1",
                        <<ChunkChoice(ChunkDelta(Some("assistant"), Some(<< >>), Some(<< >>)),
                                      Some("tool_calls"))>>,
                        Some(ChatUsage(5, 7)))
    /\ openai.message_started
    /\ emitted = <<Ok(MessageEnd(5, 7, Some("ToolUse")))>>

-----------------------------------------------------------------------------
(* Claims about the tool calls of the Chat-Completions adapter, under      *)
(* SpecToolChunks.                                                         *)

\* The tool_calls entries received so far, in arrival order.
RECURSIVE EntriesReceived(_, _)
EntriesReceived(chunks, i) ==
    IF i > Len(chunks) THEN << >>
    ELSE (IF chunks[i].choices # << >> /\ chunks[i].choices[1].delta.tool_calls # None
          THEN chunks[i].choices[1].delta.tool_calls[1] ELSE << >>)
           \o EntriesReceived(chunks, i + 1)

HasIdAndName(entry) ==
    entry.id # None /\ entry.function # None /\ entry.function[1].name # None

\* The argument fragment of an entry, empty if it has none.
ArgumentsOf(entry) ==
    IF entry.function # None /\ entry.function[1].arguments # None
    THEN entry.function[1].arguments[1] ELSE << >>

\* What C34 says an entry gives.
EntryEvents(entry) ==
    (IF HasIdAndName(entry)
     THEN <<ToolCallStart(entry.id[1], entry.function[1].name[1])>> ELSE << >>)
    \o (IF ArgumentsOf(entry) # << >> THEN <<ToolCallDelta(ArgumentsOf(entry))>> ELSE << >>)

RECURSIVE EntriesEvents(_, _)
EntriesEvents(entries, i) ==
    IF i > Len(entries) THEN << >>
    ELSE EntryEvents(entries[i]) \o EntriesEvents(entries, i + 1)

RECURSIVE EntriesArguments(_, _)
EntriesArguments(entries, i) ==
    IF i > Len(entries) THEN << >>
    ELSE ArgumentsOf(entries[i]) \o EntriesArguments(entries, i + 1)

ToolEvents(events) ==
    SelectSeq(events, LAMBDA e : e.type \in {"ToolCallStart", "ToolCallDelta"})

\* C34: the tool events the adapter has emitted are, entry by entry in the
\* order the entries arrived, a ToolCallStart for an entry with id and
\* function.name and then a ToolCallDelta with the entry's non-empty
\* arguments as they came; the ToolCallDelta payloads joined are the
\* received fragments joined; the adapter keeps no fragment.
C34_NoArgumentReassembly ==
    /\ ToolEvents(EventsOf(emitted)) = EntriesEvents(EntriesReceived(wire.received, 1), 1)
    /\ FragmentsFrom(EventsOf(emitted), 1)
         = EntriesArguments(EntriesReceived(wire.received, 1), 1)
    /\ DOMAIN openai = {"stop_reason", "message_started"}
    /\ \A i \in 1..Len(emitted) : emitted[i].tag = "Ok"

\* The arguments of call_1 split over two chunks, the second chunk also
\* starting call_2.
C34_Witness ==
    /\ Len(wire.received) = 2
    /\ EventsOf(emitted) = <<ToolCallStart("call_1", "weather"), ToolCallDelta(<<"{">>),
                             ToolCallDelta(<<"}">>), ToolCallStart("call_2", "clock")>>

-----------------------------------------------------------------------------
(* Claims about the validator's state, under SpecCore.                     *)

\* C35: a validate_event call that returns a violation leaves the three
\* flags of the validator as they were, in the stand-alone validator and in
\* the one from_stream owns; a change of the flags comes with an accepted
\* event.
C35_RejectionLeavesState ==
    [][/\ (EventYielded /\ NewVerdict # Accepted) => validator' = validator
       /\ validator' # validator => (EventYielded /\ NewVerdict = Accepted)
       /\ (EventYielded /\ asm_result = Pending /\ NewVerdict # Accepted)
             => asm'.event_validator = asm.event_validator]_vars

\* A ToolCallDelta rejected with no tool call open, then the same event
\* rejected again for the same reason.
C35_Witness ==
    /\ verdicts = <<Accepted, "ToolCallDeltaBeforeStart", "ToolCallDeltaBeforeStart">>
    /\ validator = [message_started |-> TRUE, message_ended |-> FALSE,
                    tool_call_started |-> FALSE]

\* C36: from_stream never returns ToolCallMissingId or ToolCallMissingName,
\* whatever the stream yields: while it runs, the id and the name of the
\* pending tool call are set together, and the buffer is empty when no
\* call is pending.
C36_NoMissingIdOrName ==
    /\ asm_result \notin {Violation("ToolCallMissingId"), Violation("ToolCallMissingName")}
    /\ asm_result = Pending =>
          /\ asm.current_tool_id = None <=> asm.current_tool_name = None
          /\ asm.current_tool_id = None => asm.current_tool_json = << >>

\* Two tool calls are closed by finalize_pending_tool, the second with a
\* buffer that does not parse: the id and the name were taken, the buffer
\* is left, and what from_stream returns is the parse error.
C36_Witness ==
    /\ asm_result = Err(SerializationError("serde_json"))
    /\ asm.content_parts = <<ToolUse("call_1", "weather", EmptyObject)>>
    /\ asm.current_tool_id = None
    /\ asm.current_tool_name = None
    /\ asm.current_tool_json = <<"}">>

\* An event of this type was accepted by the validator before this step.
WasAccepted(type) ==
    \E i \in 1..Len(verdicts) : verdicts[i] = Accepted /\ Events[i].type = type

\* C37: after an accepted ToolCallStart and before an accepted MessageEnd a
\* ToolCallDelta is accepted whatever events came between, and from_stream
\* appends its fragment to the buffer, which belongs to the tool call
\* started last; the validator's tool_call_started flag goes from true to
\* false only in the step that accepts a MessageEnd.
C37_ToolCallStaysOpen ==
    [][/\ (EventYielded /\ NewEvent.type = "ToolCallDelta"
             /\ WasAccepted("ToolCallStart") /\ ~WasAccepted("MessageEnd"))
             => /\ NewVerdict = Accepted
                /\ asm_result = Pending
                      => /\ asm_result' = Pending
                         /\ asm'.current_tool_json = asm.current_tool_json \o NewEvent.delta
                         /\ asm'.current_tool_id = Some(Events[LastStart(Events)].id)
                         /\ asm'.current_tool_name = Some(Events[LastStart(Events)].name)
                         /\ asm'.content_parts = asm.content_parts
       /\ (validator.tool_call_started /\ ~validator'.tool_call_started)
             => /\ EventYielded
                /\ NewEvent.type = "MessageEnd"
                /\ NewVerdict = Accepted]_vars

\* A text delta and a thinking delta between the ToolCallStart and its
\* fragment.
C37_Witness ==
    /\ Len(stream) = 5
    /\ stream[2] = Ok(ToolCallStart("call_2", "clock"))
    /\ stream[3] = Ok(MessageDelta(<<"a">>))
    /\ stream[4] = Ok(ThinkingDelta(<<"t">>))
    /\ stream[5] = Ok(ToolCallDelta(<<"{">>))
    /\ verdicts[5] = Accepted
    /\ asm_result = Pending
    /\ asm.current_tool_id = Some("call_2")
    /\ asm.current_tool_json = <<"{">>

\* The indices of the ToolCallStart events, in order.
RECURSIVE StartIndices(_, _)
StartIndices(events, i) ==
    IF i > Len(events) THEN << >>
    ELSE (IF events[i].type = "ToolCallStart" THEN <<i>> ELSE << >>)
           \o StartIndices(events, i + 1)

\* The fragments between the ToolCallStart at index i and the next one.
RECURSIVE FragmentsOfCall(_, _)
FragmentsOfCall(events, i) ==
    IF i >= Len(events) \/ events[i + 1].type = "ToolCallStart" THEN << >>
    ELSE (IF events[i + 1].type = "ToolCallDelta" THEN events[i + 1].delta ELSE << >>)
           \o FragmentsOfCall(events, i + 1)

\* C38: a result from_stream returns has as many ToolUse parts as the
\* stream has ToolCallStart events, and the n-th part has the id and the
\* name of the n-th ToolCallStart and the parse of the fragments that
\* followed it before the next start, {} when there were none.
C38_OneToolUsePerStart ==
    Returned =>
        LET parts == ToolUseParts(Content)
            starts == StartIndices(Events, 1)
        IN /\ Len(parts) = Len(starts)
           /\ \A n \in 1..Len(starts) :
                 /\ n <= Len(parts)
                 /\ parts[n].id = Events[starts[n]].id
                 /\ parts[n].name = Events[starts[n]].name
                 /\ Ok(parts[n].input)
                      = parse_tool_input(FragmentsOfCall(Events, starts[n]))

\* Three tool calls with no fragment, two of them with the same id, each a
\* part of its own.
C38_Witness ==
    /\ Returned
    /\ Len(stream) = 5
    /\ Content = <<ToolUse("call_1", "weather", EmptyObject),
                   ToolUse("call_1", "weather", EmptyObject),
                   ToolUse("call_2", "clock", EmptyObject)>>

-----------------------------------------------------------------------------
(* Claims about the retry counter and the per-call options, under          *)
(* SpecTransportClock and SpecTransport.                                   *)

\* The bounds C39 states, which hold at every point of a call.
RetryCounterBounds ==
    /\ http.max_retries <= MAX_RETRIES_CAP
    /\ http.sleeps <= http.retries
    /\ http.retries <= http.max_retries
    /\ http.attempts <= http.max_retries + 1

AbortedAtLoopTop ==
    /\ http.result.tag = "Err"
    /\ http.result.error.kind = "ApiError"
    /\ http.result.error.detail[1]
         = "API request aborted: total timeout budget of {:?} was exceeded"

\* C39 as stated: when the call has returned, it slept once less than it
\* sent.
C39_Original ==
    /\ RetryCounterBounds
    /\ http.result # Pending => http.sleeps = http.attempts - 1

\* C39: status retries and network-error retries count on one counter; the
\* sleeps never exceed the counter, the counter never exceeds the clamped
\* max_retries, and there are at most max_retries + 1 sends.  A call that
\* has returned slept once less than it sent, except when it was aborted at
\* the top of the loop, after a sleep and before the next send: then it
\* slept as often as it sent.
C39_SharedRetryCounter ==
    /\ RetryCounterBounds
    /\ http.result # Pending =>
          IF AbortedAtLoopTop THEN http.sleeps = http.attempts
          ELSE http.sleeps = http.attempts - 1

\* Both kinds of failure in one call that used up its two retries.
C39_Witness ==
    /\ http.result.tag = "Err"
    /\ ~AbortedAtLoopTop
    /\ http.classes = {"response", "network"}
    /\ http.max_retries = 2
    /\ http.retries = 2
    /\ http.sleeps = 2
    /\ http.attempts = 3

-----------------------------------------------------------------------------
(* Claims about the per-call options, under SpecOptions.                   *)

\* The policy a call resolved, once it has.
Resolved == http.resolved[1]

OnlyCalled(builder) == http.resolved # None /\ http.called = {builder}

\* C40: a per-call option that overrides one setting leaves the client's
\* other defaults in effect.  After with_retries(n) alone the resolved retry
\* policy is the client's retry policy with max_retries replaced by n (as
\* clamped), and the timeout policy is the client's; after with_timeout(t)
\* alone the resolved timeout policy is the client's with request_timeout
\* replaced by t, its total_timeout kept, and the retry policy is the
\* client's (as clamped).
C40_SingleOverrideKeepsDefaults ==
    /\ OnlyCalled("with_retries") =>
          /\ Resolved.retry_policy =
                [http.config.retry_policy EXCEPT
                    !.max_retries = Min(http.options.max_retries[1], MAX_RETRIES_CAP)]
          /\ Resolved.timeout_policy = http.config.timeout_policy
    /\ OnlyCalled("with_timeout") =>
          /\ Resolved.timeout_policy =
                [http.config.timeout_policy EXCEPT
                    !.request_timeout = http.options.timeout]
          /\ Resolved.retry_policy =
                [http.config.retry_policy EXCEPT
                    !.max_retries = Min(@, MAX_RETRIES_CAP)]

\* What the code does in those two cases: the policy resolved is the default
\* policy of the crate with the one setting replaced, not the client's.
C40_DefaultsReplaceClientPolicy ==
    /\ OnlyCalled("with_retries") =>
          /\ Resolved.retry_policy =
                [RetryPolicy_default EXCEPT
                    !.max_retries = Min(http.options.max_retries[1], MAX_RETRIES_CAP)]
          /\ Resolved.timeout_policy = http.config.timeout_policy
    /\ OnlyCalled("with_timeout") =>
          /\ Resolved.timeout_policy =
                [TimeoutPolicy_default EXCEPT
                    !.request_timeout = http.options.timeout]
          /\ Resolved.retry_policy =
                [http.config.retry_policy EXCEPT
                    !.max_retries = Min(@, MAX_RETRIES_CAP)]

C40_Witness ==
    /\ OnlyCalled("with_timeout")
    /\ http.config.timeout_policy = TimeoutPolicy(Some(2), Some(5))
    /\ http.options.timeout = Some(4)
    /\ Resolved.timeout_policy = TimeoutPolicy(Some(4), None)

====
